---- MODULE Spec2Model ----
(***************************************************************************)
(* Figma-to-HTML/CSS pipeline: normalization (normalizedTree.ts),          *)
(* classification (classifyNode.ts) and emission (renderCSS.ts, the markup *)
(* emitter, utils/render) as a state machine that follows the convert      *)
(* handler step by step.                                                   *)
(*                                                                         *)
(* Representation:                                                         *)
(*  - a JS object is a record; an optional field that is absent is absent  *)
(*    from the record's DOMAIN;                                            *)
(*  - a JS string that the code inspects character by character (a node    *)
(*    id) is a sequence of one-character strings;                          *)
(*  - a 0..1 quantity (colour channel, alpha, opacity) is an integer       *)
(*    numerator over ChanDen;                                              *)
(*  - a pixel quantity is an integer number of 1/(PxScale*SubMilli) px, so *)
(*    that px()'s rounding to 1/PxScale px is observable;                  *)
(*  - a stylesheet block is a record [selector, rules], a declaration a    *)
(*    record [prop, val]; markup is a tree of element records.             *)
(***************************************************************************)
EXTENDS Integers, Sequences, FiniteSets, TLC

VARIABLES
    document,          \* the raw Figma document handed to normalizeFile
    pc,                \* position of the convert handler
    normalized,        \* NormalizationResult {frames, warnings, stats}
    classifiedFrames,  \* normalized.frames.map(classifyTree)
    imageAssets,       \* ImageAssetMap returned by prepareImageAssets
    css,               \* buildStyles(classifiedFrames, imageAssets)
    html,              \* buildIndexHtml(fileKey, classifiedFrames)
    svgIds,            \* collectSvgNodeIds(classifiedFrames), the export request
    assetFiles,        \* the files emitSvgAssets wrote: file name -> what was written
    previous,          \* what the previous request for the same file produced, if any
    cacheMap,          \* the ids for which exportNodeSvgs returned a path
    normWalk,          \* the call stack of toNormalized on a raw object graph
    outFiles,          \* the files written to public/generated/<fileKey>
    response,          \* the response the handler returned, once it has
    svgStore,          \* the SVG disk cache of one file key and the export call on it
    ui                 \* the state of the front-end page

vars == <<document, pc, normalized, classifiedFrames, imageAssets, css, html, svgIds,
          assetFiles, previous, cacheMap, normWalk, outFiles, response, svgStore, ui>>

---------------------------------------------------------------------------
(* Bounds of the model *)

\* raw nodes below the page in a generated document
MaxNodes == 3
\* total number of fill + stroke + effect entries of a generated style
MaxItems == 3
\* denominator of 0..1 quantities
ChanDen == 4
\* coordinate units per 1/PxScale px
SubMilli == 2
\* largest component of a gradient direction vector
MaxMag == 2
\* depth of the call stack at which a further call fails
MaxStack == 4
\* number of versions (lastModified values) the Figma file goes through
MaxVer == 2
\* number of conversions started from the page
MaxReqs == 3

(* Program constants *)

\* px(): Math.round(n * 1000) / 1000
PxScale == 1000
\* rgba(): Math.round(c * 255)
ByteMax == 255

Unit == PxScale * SubMilli

---------------------------------------------------------------------------
(* JS helpers *)

Has(obj, f) == f \in DOMAIN obj

Get(obj, f, dflt) == IF f \in DOMAIN obj THEN obj[f] ELSE dflt

\* an optional value as a sequence of length 0 or 1
Opt(obj, f) == IF f \in DOMAIN obj THEN <<obj[f]>> ELSE <<>>

\* Math.round(num / den) for den > 0: floor(x + 1/2)
RoundDiv(num, den) == (2 * num + den) \div (2 * den)

Min2(a, b) == IF a < b THEN a ELSE b

Max2(a, b) == IF a > b THEN a ELSE b

\* getArray(input): the array, or [] when the field is absent
getArray(obj, f) == IF f \in DOMAIN obj THEN obj[f] ELSE <<>>

\* toNum(input, fallback) on an optional numeric field
toNum(obj, f, fallback) == IF f \in DOMAIN obj THEN obj[f] ELSE fallback

\* toNum(box?.f, fallback) on an optional box
toNumBox(box, f, fallback) ==
    IF Len(box) = 0 THEN fallback ELSE toNum(box[1], f, fallback)

---------------------------------------------------------------------------
(* Geometry/Style mapper: src/app/lib/normalizedTree.ts *)

\* the opaque 1 of a 0..1 quantity
One == ChanDen

mapColor(color, opacity) ==
    LET c == IF Len(color) = 0 THEN [x |-> 0] ELSE color[1]
    IN [r |-> toNum(c, "r", 0),
        g |-> toNum(c, "g", 0),
        b |-> toNum(c, "b", 0),
        a |-> IF Len(opacity) > 0 THEN opacity[1] ELSE toNum(c, "a", One)]

mapStops(stops) ==
    [i \in DOMAIN stops |->
        [position |-> toNum(stops[i], "position", 0),
         color    |-> mapColor(Opt(stops[i], "color"), Opt(stops[i], "opacity"))]]

\* Math.atan2(b, a) * 180 / Math.PI for the direction vectors of the model
Atan2Deg(b, a) ==
    CASE a > 0 /\ b = 0 -> 0
      [] a > 0 /\ b > 0 /\ a = b -> 45
      [] a = 0 /\ b > 0 -> 90
      [] a < 0 /\ b > 0 /\ -a = b -> 135
      [] a < 0 /\ b = 0 -> 180
      [] a < 0 /\ b < 0 /\ a = b -> -135
      [] a = 0 /\ b < 0 -> -90
      [] a > 0 /\ b < 0 /\ a = -b -> -45

\* the JS remainder x % m, which takes the sign of x
JsRem(x, m) == IF x >= 0 THEN x % m ELSE -((-x) % m)

\* a plausible slip: the angle of the vector returned without the CSS mapping
mapGradientAngle_geometric(n) ==
    IF ~Has(n, "gradientTransform") \/ Len(n.gradientTransform) < 2 THEN 0
    ELSE LET row0 == n.gradientTransform[1]
             row1 == n.gradientTransform[2]
         IN IF Len(row0) < 2 \/ Len(row1) < 2 THEN 0
            ELSE LET a == row0[1]
                     b == row1[1]
                 IN IF a = 0 /\ b = 0 THEN 0
                    ELSE LET angleRaw == Atan2Deg(b, a)
                         IN IF angleRaw < 0 THEN angleRaw + 360 ELSE angleRaw

mapGradientAngle(n) ==
    IF ~Has(n, "gradientTransform") \/ Len(n.gradientTransform) < 2 THEN 0
    ELSE LET row0 == n.gradientTransform[1]
             row1 == n.gradientTransform[2]
         IN IF Len(row0) < 2 \/ Len(row1) < 2 THEN 0
            ELSE LET a == row0[1]
                     b == row1[1]
                 IN IF a = 0 /\ b = 0 THEN 0
                    ELSE LET angleRaw == Atan2Deg(b, a)
                             angleDeg == IF angleRaw < 0 THEN angleRaw + 360 ELSE angleRaw
                             cssAngle == 90 - angleDeg
                         IN JsRem(JsRem(cssAngle, 360) + 360, 360)

\* one iteration of the loop of mapFills: the entry pushed, if any
mapFill(f) ==
    LET type == Get(f, "type", "")
    IN CASE type = "SOLID" ->
              <<[kind |-> "solid", color |-> mapColor(Opt(f, "color"), Opt(f, "opacity"))]>>
         [] type = "GRADIENT_LINEAR" ->
              <<[kind |-> "linearGradient", stops |-> mapStops(getArray(f, "gradientStops")),
                 angle |-> mapGradientAngle(f)]>>
         [] type = "GRADIENT_RADIAL" ->
              <<[kind |-> "radialGradient", stops |-> mapStops(getArray(f, "gradientStops"))]>>
         [] type \in {"GRADIENT_ANGULAR", "GRADIENT_CONIC"} ->
              <<[kind |-> "conicGradient", stops |-> mapStops(getArray(f, "gradientStops")),
                 angle |-> mapGradientAngle(f)]>>
         [] type = "IMAGE" ->
              <<[kind |-> "image", imageRef |-> Get(f, "imageRef", ""),
                 scaleMode |-> IF Get(f, "scaleMode", "FILL") \in {"FIT", "TILE", "CROP"}
                               THEN f.scaleMode ELSE "FILL"]>>
         [] OTHER -> <<>>

FillSupported(f) ==
    Get(f, "type", "") \in {"SOLID", "GRADIENT_LINEAR", "GRADIENT_RADIAL",
                            "GRADIENT_ANGULAR", "GRADIENT_CONIC", "IMAGE"}

RECURSIVE mapFillsFrom(_, _, _, _)
mapFillsFrom(fills, i, out, warnings) ==
    IF i > Len(fills) THEN [out |-> out, warnings |-> warnings]
    ELSE LET f == fills[i]
         IN IF ~Get(f, "visible", TRUE) THEN mapFillsFrom(fills, i + 1, out, warnings)
            ELSE IF FillSupported(f)
                 THEN mapFillsFrom(fills, i + 1, out \o mapFill(f), warnings)
                 ELSE mapFillsFrom(fills, i + 1, out,
                        Append(warnings, <<"Unsupported fill type", Get(f, "type", "")>>))

mapFills(fills, warnings) == mapFillsFrom(fills, 1, <<>>, warnings)

\* String(s.type ?? "").startsWith("GRADIENT")
StartsWithGradient(type) ==
    type \in {"GRADIENT_LINEAR", "GRADIENT_RADIAL", "GRADIENT_ANGULAR",
              "GRADIENT_CONIC", "GRADIENT_DIAMOND"}

\* weight ?? strokeWeight ?? width, 1 when none is a number
strokeWidth(s) ==
    IF Has(s, "weight") THEN s.weight
    ELSE IF Has(s, "strokeWeight") THEN s.strokeWeight
    ELSE IF Has(s, "width") THEN s.width
    ELSE Unit

\* the dashPattern field of a mapped stroke: present only when the raw one is an array
WithDash(stroke, s) ==
    IF Has(s, "dashPattern")
    THEN [k \in DOMAIN stroke \cup {"dashPattern"} |->
             IF k = "dashPattern" THEN s.dashPattern ELSE stroke[k]]
    ELSE stroke

mapStroke(s) ==
    LET alignment == Get(s, "alignment", "CENTER")
        type == Get(s, "type", "")
    IN IF type = "SOLID"
       THEN <<WithDash([kind |-> "solid", alignment |-> alignment, width |-> strokeWidth(s),
                        color |-> mapColor(Opt(s, "color"), Opt(s, "opacity"))], s)>>
       ELSE IF StartsWithGradient(type)
       THEN <<WithDash([kind |-> "gradient", alignment |-> alignment, width |-> strokeWidth(s),
                        gradient |-> [stops |-> mapStops(getArray(s, "gradientStops")),
                                      angle |-> mapGradientAngle(s)]], s)>>
       ELSE <<>>

RECURSIVE mapStrokesFrom(_, _, _, _)
mapStrokesFrom(strokes, i, out, warnings) ==
    IF i > Len(strokes) THEN [out |-> out, warnings |-> warnings]
    ELSE LET s == strokes[i]
             type == Get(s, "type", "")
         IN IF ~Get(s, "visible", TRUE) THEN mapStrokesFrom(strokes, i + 1, out, warnings)
            ELSE IF type = "SOLID" \/ StartsWithGradient(type)
                 THEN mapStrokesFrom(strokes, i + 1, out \o mapStroke(s), warnings)
                 ELSE mapStrokesFrom(strokes, i + 1, out,
                        Append(warnings, <<"Unsupported stroke type", type>>))

mapStrokes(strokes, warnings) == mapStrokesFrom(strokes, 1, <<>>, warnings)

mapEffect(effect) ==
    LET type == Get(effect, "type", "")
        offset == Opt(effect, "offset")
    IN IF type \in {"DROP_SHADOW", "INNER_SHADOW"}
       THEN <<[type |-> type,
               x |-> toNumBox(offset, "x", 0),
               y |-> toNumBox(offset, "y", 0),
               blur |-> toNum(effect, "radius", 0),
               spread |-> toNum(effect, "spread", 0),
               color |-> mapColor(Opt(effect, "color"), Opt(effect, "opacity"))]>>
       ELSE IF type \in {"LAYER_BLUR", "BACKGROUND_BLUR"}
       THEN <<[type |-> type, blur |-> toNum(effect, "radius", 0)]>>
       ELSE <<>>

RECURSIVE mapEffectsFrom(_, _, _)
mapEffectsFrom(effects, i, out) ==
    IF i > Len(effects) THEN out
    ELSE mapEffectsFrom(effects, i + 1, out \o mapEffect(effects[i]))

mapEffects(effects) == mapEffectsFrom(effects, 1, <<>>)

mapTypography(node) ==
    LET s == Get(node, "style", [x |-> 0])
    IN [fontFamily |-> Get(s, "fontFamily", "system-ui"),
        fontWeight |-> toNum(s, "fontWeight", 0),
        fontSize |-> toNum(s, "fontSize", 14 * Unit),
        lineHeightPx |-> toNum(s, "lineHeightPx", 0),
        letterSpacing |-> toNum(s, "letterSpacing", 0),
        textDecoration |-> Get(s, "textDecoration", "NONE"),
        textAlignHorizontal |-> Get(s, "textAlignHorizontal", "LEFT")]

\* the optional borderRadius: a number, four corners, or absent
mapRadius(node) ==
    IF Has(node, "cornerRadius") THEN <<[uniform |-> TRUE, value |-> node.cornerRadius]>>
    ELSE LET r == getArray(node, "rectangleCornerRadii")
             at(i) == IF i <= Len(r) THEN r[i] ELSE 0
         IN IF \E i \in 1..4 : at(i) # 0
            THEN <<[uniform |-> FALSE, topLeft |-> at(1), topRight |-> at(2),
                    bottomRight |-> at(3), bottomLeft |-> at(4)]>>
            ELSE <<>>

EndsWithGradient(kind) == kind \in {"linearGradient", "radialGradient", "conicGradient"}

\* the fields of a StyleModel that are always present
StyleBase(node, fills, strokes) ==
    [fills |-> fills,
     strokes |-> strokes,
     borderRadius |-> mapRadius(node),
     effects |-> mapEffects(getArray(node, "effects")),
     typography |-> IF Get(node, "type", "") = "TEXT" THEN <<mapTypography(node)>> ELSE <<>>,
     opacity |-> toNum(node, "opacity", One),
     hasMask |-> Get(node, "isMask", FALSE)]

\* blendMode is a field only when the raw node has a non-empty one
WithBlend(style, node) ==
    IF Get(node, "blendMode", "") # ""
    THEN [k \in DOMAIN style \cup {"blendMode"} |->
             IF k = "blendMode" THEN node.blendMode ELSE style[k]]
    ELSE style

mapStyle(node, warnings, stats) ==
    LET f == mapFills(getArray(node, "fills"), warnings)
        s == mapStrokes(getArray(node, "strokes"), f.warnings)
        style == WithBlend(StyleBase(node, f.out, s.out), node)
        g == IF \E i \in DOMAIN f.out : EndsWithGradient(f.out[i].kind) THEN 1 ELSE 0
        m == IF style.hasMask THEN 1 ELSE 0
    IN [style |-> style,
        warnings |-> s.warnings,
        stats |-> [stats EXCEPT !.gradients = @ + g, !.masks = @ + m]]

\* a plausible slip: a kind outside the table falls back to a frame
mapType_defaultFrame(node) ==
    LET figmaType == Get(node, "type", "")
    IN CASE figmaType = "TEXT" -> "text"
         [] figmaType \in {"VECTOR", "LINE", "ELLIPSE", "REGULAR_POLYGON", "STAR",
                           "BOOLEAN_OPERATION"} -> "vector"
         [] figmaType = "RECTANGLE" ->
              IF \E i \in DOMAIN getArray(node, "fills") :
                     Get(node.fills[i], "type", "") = "IMAGE"
              THEN "image" ELSE "frame"
         [] OTHER -> "frame"

mapType(node) ==
    LET figmaType == Get(node, "type", "")
    IN CASE figmaType \in {"FRAME", "GROUP", "COMPONENT", "INSTANCE", "SECTION"} -> "frame"
         [] figmaType = "TEXT" -> "text"
         [] figmaType \in {"VECTOR", "LINE", "ELLIPSE", "REGULAR_POLYGON", "STAR",
                           "BOOLEAN_OPERATION"} -> "vector"
         [] figmaType = "RECTANGLE" ->
              IF \E i \in DOMAIN getArray(node, "fills") :
                     Get(node.fills[i], "type", "") = "IMAGE"
              THEN "image" ELSE "frame"
         [] OTHER -> "null"

mapAlign(counter) ==
    CASE counter = "MIN" -> <<"start">>
      [] counter = "CENTER" -> <<"center">>
      [] counter = "MAX" -> <<"end">>
      [] counter = "SPACE_BETWEEN" -> <<"stretch">>
      [] OTHER -> <<>>

mapJustify(primary) ==
    CASE primary = "MIN" -> <<"start">>
      [] primary = "CENTER" -> <<"center">>
      [] primary = "MAX" -> <<"end">>
      [] primary = "SPACE_BETWEEN" -> <<"space-between">>
      [] OTHER -> <<>>

HasAuto(layoutMode) == layoutMode \in {"HORIZONTAL", "VERTICAL"}

\* the three layouts mapLayout chooses among
flexLayout(node) ==
    LET boundingBox == Opt(node, "absoluteBoundingBox")
        height == toNumBox(boundingBox, "height", 0)
    IN [display |-> "flex",
        direction |-> IF Get(node, "layoutMode", "NONE") = "HORIZONTAL"
                      THEN "row" ELSE "column",
        padding |-> [top |-> toNum(node, "paddingTop", 0),
                     right |-> toNum(node, "paddingRight", 0),
                     bottom |-> toNum(node, "paddingBottom", 0),
                     left |-> toNum(node, "paddingLeft", 0)],
        gap |-> toNum(node, "itemSpacing", 0),
        align |-> mapAlign(Get(node, "counterAxisAlignItems", "")),
        justify |-> mapJustify(Get(node, "primaryAxisAlignItems", "")),
        width |-> toNumBox(boundingBox, "width", 0),
        height |-> height,
        autoHeight |-> (height = 0)]

blockLayout(node) ==
    [display |-> "block",
     width |-> toNumBox(Opt(node, "absoluteBoundingBox"), "width", 0),
     height |-> toNumBox(Opt(node, "absoluteBoundingBox"), "height", 0)]

absoluteLayout(node, parentBox) ==
    LET boundingBox == Opt(node, "absoluteBoundingBox")
    IN [display |-> "absolute",
        x |-> toNumBox(boundingBox, "x", 0) - toNumBox(parentBox, "x", 0),
        y |-> toNumBox(boundingBox, "y", 0) - toNumBox(parentBox, "y", 0),
        width |-> toNumBox(boundingBox, "width", 0),
        height |-> toNumBox(boundingBox, "height", 0)]

\* a plausible slip: the parent's flow is tested before the node's own
mapLayout_parentFirst(node, parentBox, parentLayoutMode) ==
    IF HasAuto(parentLayoutMode) /\ Get(node, "layoutPositioning", "AUTO") # "ABSOLUTE"
    THEN blockLayout(node)
    ELSE IF HasAuto(Get(node, "layoutMode", "NONE")) THEN flexLayout(node)
    ELSE absoluteLayout(node, parentBox)

\* a plausible slip: every node that is no flow container is positioned absolutely
mapLayout_noFlowItem(node, parentBox, parentLayoutMode) ==
    IF HasAuto(Get(node, "layoutMode", "NONE")) THEN flexLayout(node)
    ELSE absoluteLayout(node, parentBox)

\* a plausible slip: x/y relative to the document root
mapLayout_rootRelative(node, parentBox, parentLayoutMode) ==
    IF HasAuto(Get(node, "layoutMode", "NONE")) THEN flexLayout(node)
    ELSE IF HasAuto(parentLayoutMode) /\ Get(node, "layoutPositioning", "AUTO") # "ABSOLUTE"
    THEN blockLayout(node)
    ELSE absoluteLayout(node, <<>>)

mapLayout(node, parentBox, parentLayoutMode) ==
    LET layoutMode == Get(node, "layoutMode", "NONE")
        layoutPositioning == Get(node, "layoutPositioning", "AUTO")
        nodeHasAuto == HasAuto(layoutMode)
        parentHasAuto == HasAuto(parentLayoutMode)
    IN IF nodeHasAuto THEN flexLayout(node)
       ELSE IF parentHasAuto /\ layoutPositioning # "ABSOLUTE" THEN blockLayout(node)
       ELSE absoluteLayout(node, parentBox)

isRenderable(node) ==
    /\ Get(node, "visible", TRUE) # FALSE
    /\ Get(node, "type", "") \notin {"SLICE", "GUIDE", "COMPONENT_SET"}

---------------------------------------------------------------------------
(* Tree normalizer: src/app/lib/normalizedTree.ts *)

ZeroStats ==
    [nodesTotal |-> 0, frames |-> 0, texts |-> 0, vectors |-> 0, images |-> 0,
     gradients |-> 0, masks |-> 0]

\* the per-kind counter bumped for a mapped kind
countKind(stats, type) ==
    CASE type = "text" -> [stats EXCEPT !.texts = @ + 1]
      [] type = "vector" -> [stats EXCEPT !.vectors = @ + 1]
      [] type = "image" -> [stats EXCEPT !.images = @ + 1]
      [] type = "frame" -> [stats EXCEPT !.frames = @ + 1]

RECURSIVE toNormalized(_, _, _, _, _)
RECURSIVE normalizeChildren(_, _, _, _, _, _, _)

\* a plausible slip: each mapped child is put in front of the earlier ones
normalizeChildren_reversed(children, i, out, warnings, stats, thisBox, thisLayoutMode) ==
    IF i > Len(children) THEN [out |-> out, warnings |-> warnings, stats |-> stats]
    ELSE LET r == toNormalized(children[i], warnings, stats, thisBox, thisLayoutMode)
         IN normalizeChildren(children, i + 1, r.node \o out, r.warnings, r.stats,
                              thisBox, thisLayoutMode)

\* getArray(node.children).map(child => toNormalized(...)).filter(Boolean),
\* with the warnings and stats the calls share
normalizeChildren(children, i, out, warnings, stats, thisBox, thisLayoutMode) ==
    IF i > Len(children) THEN [out |-> out, warnings |-> warnings, stats |-> stats]
    ELSE LET r == toNormalized(children[i], warnings, stats, thisBox, thisLayoutMode)
         IN normalizeChildren(children, i + 1, out \o r.node, r.warnings, r.stats,
                              thisBox, thisLayoutMode)

\* a plausible slip: nodesTotal is bumped after the test of the kind
toNormalized_countsKept(node, warnings, stats, parentBox, parentLayoutMode) ==
    LET type == mapType(node)
    IN IF type = "null" THEN [node |-> <<>>, warnings |-> warnings, stats |-> stats]
       ELSE LET counted == [stats EXCEPT !.nodesTotal = @ + 1]
                layout == mapLayout(node, parentBox, parentLayoutMode)
                st == mapStyle(node, warnings, countKind(counted, type))
                text == IF type = "text" THEN <<Get(node, "characters", <<>>)>> ELSE <<>>
                thisBox == Opt(node, "absoluteBoundingBox")
                thisLayoutMode == Get(node, "layoutMode", "NONE")
                ch == normalizeChildren(getArray(node, "children"), 1, <<>>,
                                        st.warnings, st.stats, thisBox, thisLayoutMode)
            IN [node |-> <<[id |-> Get(node, "id", <<>>),
                            name |-> Get(node, "name", ""),
                            type |-> type,
                            layout |-> layout,
                            style |-> st.style,
                            text |-> text,
                            children |-> ch.out]>>,
                warnings |-> ch.warnings,
                stats |-> ch.stats]

\* returns the node (a sequence of length 1, empty for null) and the accumulators
toNormalized(node, warnings, stats, parentBox, parentLayoutMode) ==
    LET counted == [stats EXCEPT !.nodesTotal = @ + 1]
        type == mapType(node)
    IN IF type = "null" THEN [node |-> <<>>, warnings |-> warnings, stats |-> counted]
       ELSE LET layout == mapLayout(node, parentBox, parentLayoutMode)
                st == mapStyle(node, warnings, countKind(counted, type))
                text == IF type = "text" THEN <<Get(node, "characters", <<>>)>> ELSE <<>>
                thisBox == Opt(node, "absoluteBoundingBox")
                thisLayoutMode == Get(node, "layoutMode", "NONE")
                ch == normalizeChildren(getArray(node, "children"), 1, <<>>,
                                        st.warnings, st.stats, thisBox, thisLayoutMode)
            IN [node |-> <<[id |-> Get(node, "id", <<>>),
                            name |-> Get(node, "name", ""),
                            type |-> type,
                            layout |-> layout,
                            style |-> st.style,
                            text |-> text,
                            children |-> ch.out]>>,
                warnings |-> ch.warnings,
                stats |-> ch.stats]

\* the inner loop of normalizeFile over one page's children
RECURSIVE normalizePage(_, _, _)
normalizePage(pageChildren, i, acc) ==
    IF i > Len(pageChildren) THEN acc
    ELSE IF ~isRenderable(pageChildren[i]) THEN normalizePage(pageChildren, i + 1, acc)
    ELSE LET r == toNormalized(pageChildren[i], acc.warnings, acc.stats, <<>>, "NONE")
         IN normalizePage(pageChildren, i + 1,
                [frames |-> acc.frames \o r.node, warnings |-> r.warnings, stats |-> r.stats])

\* the outer loop of normalizeFile over the pages
RECURSIVE normalizePages(_, _, _)
normalizePages(pages, i, acc) ==
    IF i > Len(pages) THEN acc
    ELSE normalizePages(pages, i + 1, normalizePage(getArray(pages[i], "children"), 1, acc))

normalizeFile(documentRoot) ==
    normalizePages(getArray(documentRoot, "children"), 1,
                   [frames |-> <<>>, warnings |-> <<>>, stats |-> ZeroStats])

---------------------------------------------------------------------------
(* Capability classifier: src/app/lib/classifyNode.ts *)

needsSvgForStrokes(strokes) ==
    IF Len(strokes) = 0 THEN FALSE
    ELSE IF Len(strokes) > 1 THEN TRUE
    ELSE LET s == strokes[1]
         IN IF s.kind # "solid" THEN TRUE
            ELSE IF s.alignment # "CENTER" THEN TRUE
            ELSE IF Has(s, "dashPattern") /\ Len(s.dashPattern) > 0 THEN TRUE
            ELSE FALSE

needsSvgForFills(fills) ==
    \E i \in DOMAIN fills :
        fills[i].kind \notin {"solid", "image", "linearGradient", "radialGradient",
                              "conicGradient"}

\* a plausible slip: only NORMAL counts as safe
hasUnsafeBlendMode_onlyNormal(style) ==
    IF ~Has(style, "blendMode") THEN FALSE
    ELSE style.blendMode # "NORMAL"

hasUnsafeBlendMode(style) ==
    IF ~Has(style, "blendMode") THEN FALSE
    ELSE IF style.blendMode \in {"NORMAL", "PASS_THROUGH"} THEN FALSE
    ELSE TRUE

\* a plausible slip: only a blur sends the node to the fallback
needsSvgForEffects_blurOnly(effects) ==
    \E i \in DOMAIN effects : effects[i].type \in {"LAYER_BLUR", "BACKGROUND_BLUR"}

needsSvgForEffects(effects) ==
    LET shadowCount == Cardinality({i \in DOMAIN effects :
                                       effects[i].type \in {"DROP_SHADOW", "INNER_SHADOW"}})
        hasBlur == \E i \in DOMAIN effects :
                       effects[i].type \in {"LAYER_BLUR", "BACKGROUND_BLUR"}
    IN IF hasBlur THEN TRUE
       ELSE IF shadowCount > 1 THEN TRUE
       ELSE FALSE

\* a plausible slip: a text node is kept as text whatever its style
classifyNode_textAlwaysText(node) ==
    LET style == node.style
    IN IF node.type = "text" THEN "html-text"
       ELSE IF style.hasMask THEN "svg"
       ELSE IF needsSvgForStrokes(style.strokes) THEN "svg"
       ELSE IF needsSvgForFills(style.fills) THEN "svg"
       ELSE IF needsSvgForEffects(style.effects) THEN "svg"
       ELSE IF hasUnsafeBlendMode(style) THEN "svg"
       ELSE "html"

\* a plausible slip: a container inherits the fallback of a masked child
classifyNode_looksAtChildren(node) ==
    LET style == node.style
    IN IF node.type = "text"
       THEN IF \/ style.hasMask
               \/ needsSvgForStrokes(style.strokes)
               \/ needsSvgForFills(style.fills)
               \/ needsSvgForEffects(style.effects)
               \/ hasUnsafeBlendMode(style)
            THEN "svg" ELSE "html-text"
       ELSE IF style.hasMask THEN "svg"
       ELSE IF \E i \in DOMAIN node.children : node.children[i].style.hasMask THEN "svg"
       ELSE IF needsSvgForStrokes(style.strokes) THEN "svg"
       ELSE IF needsSvgForFills(style.fills) THEN "svg"
       ELSE IF needsSvgForEffects(style.effects) THEN "svg"
       ELSE IF hasUnsafeBlendMode(style) THEN "svg"
       ELSE "html"

classifyNode(node) ==
    LET style == node.style
    IN IF node.type = "text"
       THEN IF \/ style.hasMask
               \/ needsSvgForStrokes(style.strokes)
               \/ needsSvgForFills(style.fills)
               \/ needsSvgForEffects(style.effects)
               \/ hasUnsafeBlendMode(style)
            THEN "svg" ELSE "html-text"
       ELSE IF style.hasMask THEN "svg"
       ELSE IF needsSvgForStrokes(style.strokes) THEN "svg"
       ELSE IF needsSvgForFills(style.fills) THEN "svg"
       ELSE IF needsSvgForEffects(style.effects) THEN "svg"
       ELSE IF hasUnsafeBlendMode(style) THEN "svg"
       ELSE "html"

RECURSIVE classifyTree(_)

\* a plausible slip: the subtree of an image-fallback node is cut off
classifyTree_pruned(root) ==
    [k \in DOMAIN root \cup {"renderAs"} |->
        CASE k = "renderAs" -> classifyNode(root)
          [] k = "children" ->
                IF classifyNode(root) = "svg" THEN <<>>
                ELSE [i \in DOMAIN root.children |-> classifyTree(root.children[i])]
          [] OTHER -> root[k]]

\* { ...root, renderAs, children }
classifyTree(root) ==
    [k \in DOMAIN root \cup {"renderAs"} |->
        CASE k = "renderAs" -> classifyNode(root)
          [] k = "children" -> [i \in DOMAIN root.children |-> classifyTree(root.children[i])]
          [] OTHER -> root[k]]

---------------------------------------------------------------------------
(* Render helpers: src/app/lib/utils/hash.ts (the utils/render module) *)

\* the characters [a-zA-Z0-9_-] that occur in the ids of the model
SafeChars == {"0", "1", "2", "3", "4", "5", "6", "7", "8", "9", "I", "_", "-"}

\* id.replace(/[^a-zA-Z0-9_-]/g, "_")
safeId(id) == [i \in DOMAIN id |-> IF id[i] \in SafeChars THEN id[i] ELSE "_"]

cssClass(id) == <<"n", "-">> \o safeId(id)

\* Math.round(n * 1000) / 1000, in units of 1/PxScale px
px(n) == RoundDiv(n * PxScale, Unit)

\* a plausible slip: the lower bound forgotten
clamp01_upperOnly(n) == Min2(One, n)

clamp01(n) == Max2(0, Min2(One, n))

\* the channels of rgba(r,g,b,a): r, g, b in 0..255 steps, a as a 0..1 quantity
rgba(c) ==
    [r |-> RoundDiv(c.r * ByteMax, ChanDen),
     g |-> RoundDiv(c.g * ByteMax, ChanDen),
     b |-> RoundDiv(c.b * ByteMax, ChanDen),
     a |-> clamp01(c.a)]

Decl(prop, val) == [prop |-> prop, val |-> val]

\* posPercent = Math.round(position * 1000) / 10, in tenths of a percent
gradientStopsToCss(stops) ==
    [i \in DOMAIN stops |->
        [color |-> rgba(stops[i].color),
         posPermille |-> RoundDiv(stops[i].position * 1000, ChanDen)]]

\* the layer pushed for one usable fill, if any
fillLayer(f) ==
    CASE f.kind = "solid" -> <<[fn |-> "color", color |-> rgba(f.color)]>>
      [] f.kind = "linearGradient" ->
           <<[fn |-> "linear-gradient", angle |-> f.angle,
              stops |-> gradientStopsToCss(f.stops)]>>
      [] f.kind = "radialGradient" ->
           <<[fn |-> "radial-gradient", stops |-> gradientStopsToCss(f.stops)]>>
      [] f.kind = "conicGradient" ->
           <<[fn |-> "conic-gradient", angle |-> f.angle,
              stops |-> gradientStopsToCss(f.stops)]>>
      [] OTHER -> <<>>

\* the loop of pushFill: for (i = usable.length - 1; i >= 0; i--)
RECURSIVE fillLayers(_, _)
fillLayers(usable, i) ==
    IF i < 1 THEN <<>> ELSE fillLayer(usable[i]) \o fillLayers(usable, i - 1)

\* a plausible slip: the layers pushed in declaration order
pushFill_declarationOrder(fills) ==
    LET usable == SelectSeq(fills, LAMBDA f : f.kind # "image")
        reversed == fillLayers(usable, Len(usable))
        layers == [k \in DOMAIN reversed |-> reversed[Len(reversed) + 1 - k]]
    IN IF Len(fills) = 0 \/ Len(usable) = 0 \/ Len(layers) = 0 THEN <<>>
       ELSE <<Decl("background", layers)>>

\* the declarations pushFill appends to rules
pushFill(fills) ==
    LET usable == SelectSeq(fills, LAMBDA f : f.kind # "image")
        layers == fillLayers(usable, Len(usable))
    IN IF Len(fills) = 0 \/ Len(usable) = 0 \/ Len(layers) = 0 THEN <<>>
       ELSE <<Decl("background", layers)>>

\* a plausible slip: the ring of an OUTSIDE stroke is inset as well
pushStroke_ringAlwaysInset(strokes) ==
    IF Len(strokes) = 0 \/ Len(strokes) > 1 THEN <<>>
    ELSE LET s == strokes[1]
         IN IF s.kind # "solid" \/ ~Has(s, "color") THEN <<>>
            ELSE IF Has(s, "dashPattern") /\ Len(s.dashPattern) > 0 THEN <<>>
            ELSE IF s.alignment = "CENTER"
                 THEN <<Decl("border", [width |-> px(s.width), color |-> rgba(s.color)])>>
            ELSE IF s.alignment \in {"INSIDE", "OUTSIDE"}
                 THEN <<Decl("box-shadow", <<[ring |-> TRUE, inset |-> TRUE,
                                              spread |-> px(s.width),
                                              color |-> rgba(s.color)]>>)>>
            ELSE <<>>

\* the declarations pushStroke appends to rules
pushStroke(strokes) ==
    IF Len(strokes) = 0 \/ Len(strokes) > 1 THEN <<>>
    ELSE LET s == strokes[1]
         IN IF s.kind # "solid" \/ ~Has(s, "color") THEN <<>>
            ELSE IF Has(s, "dashPattern") /\ Len(s.dashPattern) > 0 THEN <<>>
            ELSE IF s.alignment = "CENTER"
                 THEN <<Decl("border", [width |-> px(s.width), color |-> rgba(s.color)])>>
            ELSE IF s.alignment = "INSIDE"
                 THEN <<Decl("box-shadow", <<[ring |-> TRUE, inset |-> TRUE,
                                              spread |-> px(s.width),
                                              color |-> rgba(s.color)]>>)>>
            ELSE IF s.alignment = "OUTSIDE"
                 THEN <<Decl("box-shadow", <<[ring |-> TRUE, inset |-> FALSE,
                                              spread |-> px(s.width),
                                              color |-> rgba(s.color)]>>)>>
            ELSE <<>>

\* the declarations pushEffects appends to rules
pushEffects(effects) ==
    LET shadows == SelectSeq(effects,
                     LAMBDA e : e.type \in {"DROP_SHADOW", "INNER_SHADOW"})
    IN IF Len(effects) = 0 \/ Len(shadows) = 0 THEN <<>>
       ELSE <<Decl("box-shadow",
                [i \in DOMAIN shadows |->
                    [ring |-> FALSE,
                     x |-> px(shadows[i].x), y |-> px(shadows[i].y),
                     blur |-> px(shadows[i].blur), spread |-> px(shadows[i].spread),
                     color |-> rgba(shadows[i].color),
                     inset |-> shadows[i].type = "INNER_SHADOW"]])>>

typographyRules(t) ==
    <<Decl("font-family", t.fontFamily), Decl("font-size", px(t.fontSize))>>
    \o (IF t.fontWeight # 0 THEN <<Decl("font-weight", t.fontWeight)>> ELSE <<>>)
    \o (IF t.lineHeightPx # 0 THEN <<Decl("line-height", px(t.lineHeightPx))>> ELSE <<>>)
    \o (IF t.letterSpacing # 0 THEN <<Decl("letter-spacing", px(t.letterSpacing))>> ELSE <<>>)
    \o <<Decl("text-align",
              CASE t.textAlignHorizontal = "CENTER" -> "center"
                [] t.textAlignHorizontal = "RIGHT" -> "right"
                [] t.textAlignHorizontal = "JUSTIFIED" -> "justify"
                [] OTHER -> "left")>>
    \o (IF t.textDecoration # "NONE"
        THEN <<Decl("text-decoration",
                    CASE t.textDecoration = "UNDERLINE" -> "underline"
                      [] t.textDecoration = "STRIKETHROUGH" -> "line-through"
                      [] OTHER -> "none")>>
        ELSE <<>>)

cssForScaleMode(scale) ==
    CASE scale = "FIT" ->
           <<Decl("background-position", "center"), Decl("background-repeat", "no-repeat"),
             Decl("background-size", "contain")>>
      [] scale = "TILE" ->
           <<Decl("background-repeat", "repeat"), Decl("background-size", "auto")>>
      [] scale = "CROP" ->
           <<Decl("background-position", "center"), Decl("background-repeat", "no-repeat"),
             Decl("background-size", "cover"), Decl("overflow", "hidden")>>
      [] OTHER ->
           <<Decl("background-position", "center"), Decl("background-repeat", "no-repeat"),
             Decl("background-size", "cover")>>

\* the character classes escapeHtml and the line-break replacement rewrite
escapeHtml(str) ==
    [i \in DOMAIN str |->
        CASE str[i] = "&" -> "&amp;"
          [] str[i] = "<" -> "&lt;"
          [] str[i] = ">" -> "&gt;"
          [] str[i] = "\"" -> "&quot;"
          [] str[i] = "'" -> "&#039;"
          [] OTHER -> str[i]]

---------------------------------------------------------------------------
(* Stylesheet emitter: src/app/lib/renderCSS.ts *)

\* a plausible slip: the channels truncated instead of rounded
rgbaToCss_truncated(color) ==
    [r |-> (color.r * ByteMax) \div ChanDen,
     g |-> (color.g * ByteMax) \div ChanDen,
     b |-> (color.b * ByteMax) \div ChanDen,
     a |-> clamp01(color.a)]

rgbaToCss(color) ==
    [r |-> RoundDiv(color.r * ByteMax, ChanDen),
     g |-> RoundDiv(color.g * ByteMax, ChanDen),
     b |-> RoundDiv(color.b * ByteMax, ChanDen),
     a |-> clamp01(color.a)]

applyTextColorFromFills(fills) ==
    LET solid == SelectSeq(fills, LAMBDA f : f.kind = "solid")
    IN IF Len(fills) = 0 \/ Len(solid) = 0 THEN <<>>
       ELSE <<Decl("color", rgbaToCss(solid[1].color))>>

layoutRules(layout) ==
    IF layout.display = "absolute"
    THEN <<Decl("position", "absolute"), Decl("left", px(layout.x)),
           Decl("top", px(layout.y)), Decl("width", px(layout.width)),
           Decl("height", px(layout.height))>>
    ELSE IF layout.display = "flex"
    THEN <<Decl("display", "flex"), Decl("position", "relative"),
           Decl("flex-direction", layout.direction), Decl("gap", px(layout.gap)),
           Decl("padding", [top |-> px(layout.padding.top),
                            right |-> px(layout.padding.right),
                            bottom |-> px(layout.padding.bottom),
                            left |-> px(layout.padding.left)])>>
         \o (IF Len(layout.align) > 0
             THEN <<Decl("align-items",
                         CASE layout.align[1] = "start" -> "flex-start"
                           [] layout.align[1] = "end" -> "flex-end"
                           [] OTHER -> layout.align[1])>>
             ELSE <<>>)
         \o (IF Len(layout.justify) > 0
             THEN <<Decl("justify-content",
                         CASE layout.justify[1] = "start" -> "flex-start"
                           [] layout.justify[1] = "end" -> "flex-end"
                           [] OTHER -> layout.justify[1])>>
             ELSE <<>>)
         \o <<Decl("width", px(layout.width))>>
         \o (IF layout.autoHeight THEN <<Decl("height", "auto")>>
             ELSE <<Decl("height", px(layout.height))>>)
    ELSE <<>>

visualRules(node) ==
    IF node.renderAs = "svg" THEN <<>>
    ELSE (IF node.renderAs = "html-text" THEN applyTextColorFromFills(node.style.fills)
          ELSE pushFill(node.style.fills))
         \o pushStroke(node.style.strokes)
         \o pushEffects(node.style.effects)
         \o (IF node.style.opacity < One
             THEN <<Decl("opacity", clamp01(node.style.opacity))>> ELSE <<>>)
         \o (IF Len(node.style.borderRadius) = 0 THEN <<>>
             ELSE IF node.style.borderRadius[1].uniform
             THEN <<Decl("border-radius", px(node.style.borderRadius[1].value))>>
             ELSE <<Decl("border-radius",
                         [topLeft |-> px(node.style.borderRadius[1].topLeft),
                          topRight |-> px(node.style.borderRadius[1].topRight),
                          bottomRight |-> px(node.style.borderRadius[1].bottomRight),
                          bottomLeft |-> px(node.style.borderRadius[1].bottomLeft)])>>)

textRules(node) ==
    IF node.renderAs = "html-text" /\ Len(node.style.typography) > 0
    THEN typographyRules(node.style.typography[1]) \o <<Decl("white-space", "pre-wrap")>>
    ELSE <<>>

imageRules(node, assets) ==
    IF node.id \in DOMAIN assets
    THEN <<Decl("background-image", assets[node.id].relativePath)>>
         \o cssForScaleMode(assets[node.id].scaleMode)
    ELSE <<>>

\* the rules array the visit callback of buildStyles builds for one node
nodeRules(node, assets) ==
    layoutRules(node.layout) \o visualRules(node) \o textRules(node)
    \o imageRules(node, assets)

\* traverse(frame, visit): the chunks pushed for the subtree, in pre-order
RECURSIVE styleChunks(_, _)
RECURSIVE styleChunksOfChildren(_, _, _)
styleChunksOfChildren(children, i, assets) ==
    IF i > Len(children) THEN <<>>
    ELSE styleChunks(children[i], assets) \o styleChunksOfChildren(children, i + 1, assets)

styleChunks(node, assets) ==
    LET rules == nodeRules(node, assets)
    IN (IF Len(rules) > 0 THEN <<[selector |-> cssClass(node.id), rules |-> rules]>>
        ELSE <<>>)
       \o styleChunksOfChildren(node.children, 1, assets)

buildStyles(rootFrames, assets) ==
    <<[selector |-> <<":root">>, rules |-> <<Decl("color-scheme", "light")>>]>>
    \o styleChunksOfChildren(rootFrames, 1, assets)

---------------------------------------------------------------------------
(* Markup emitter: src/unnamed/part_004 (renderHTML) *)

\* escapeHtml(rawText).replace(/\n/g, "<br/>")
renderTextElement(node, baseClass) ==
    LET rawText == IF Len(node.text) > 0 THEN node.text[1] ELSE <<>>
        escaped == escapeHtml(rawText)
    IN [tag |-> "p", cls |-> baseClass,
        inner |-> [i \in DOMAIN escaped |->
                      IF escaped[i] = "\n" THEN "<br/>" ELSE escaped[i]]]

RECURSIVE renderNode(_)
renderNode(node) ==
    LET cls == cssClass(node.id)
    IN IF node.renderAs = "html-text" THEN renderTextElement(node, cls)
       ELSE IF node.renderAs = "svg"
       THEN [tag |-> "img", cls |-> cls,
             src |-> <<"./assets/">> \o safeId(node.id) \o <<".svg">>]
       ELSE [tag |-> "div", cls |-> cls,
             children |-> [i \in DOMAIN node.children |-> renderNode(node.children[i])]]

\* a plausible slip: the title stamped with the request it was generated by
buildIndexHtml_stamped(fileKey, frames) ==
    [title |-> escapeHtml(fileKey) \o (IF Len(previous) = 0 THEN <<>> ELSE <<"'">>),
     body |-> [i \in DOMAIN frames |-> renderNode(frames[i])]]

buildIndexHtml(fileKey, frames) ==
    [title |-> escapeHtml(fileKey),
     body |-> [i \in DOMAIN frames |-> renderNode(frames[i])]]

---------------------------------------------------------------------------
(* Asset collection: src/unnamed/part_009 (renderSVG), src/app/lib/imageMapper.ts *)

\* UTF-16 code units of the characters that occur in ids
CharCode(c) ==
    CASE c = "-" -> 45
      [] c = "0" -> 48 [] c = "1" -> 49 [] c = "2" -> 50 [] c = "3" -> 51
      [] c = "4" -> 52 [] c = "5" -> 53 [] c = "6" -> 54 [] c = "7" -> 55
      [] c = "8" -> 56 [] c = "9" -> 57
      [] c = ":" -> 58 [] c = ";" -> 59
      [] c = "I" -> 73
      [] c = "_" -> 95

\* the JS string comparison a < b
RECURSIVE StrLessFrom(_, _, _)
StrLessFrom(a, b, i) ==
    IF i > Len(a) THEN i <= Len(b)
    ELSE IF i > Len(b) THEN FALSE
    ELSE IF CharCode(a[i]) < CharCode(b[i]) THEN TRUE
    ELSE IF CharCode(a[i]) > CharCode(b[i]) THEN FALSE
    ELSE StrLessFrom(a, b, i + 1)

StrLess(a, b) == StrLessFrom(a, b, 1)

\* Array.from(set).sort((a, b) => (a < b ? -1 : a > b ? 1 : 0))
RECURSIVE SortedIds(_)
SortedIds(ids) ==
    IF ids = {} THEN <<>>
    ELSE LET m == CHOOSE x \in ids : \A y \in ids \ {x} : StrLess(x, y)
         IN <<m>> \o SortedIds(ids \ {m})

\* the nodes of classified trees, in pre-order
RECURSIVE flatten(_)
RECURSIVE flattenAll(_, _)
flattenAll(nodes, i) ==
    IF i > Len(nodes) THEN <<>> ELSE flatten(nodes[i]) \o flattenAll(nodes, i + 1)

flatten(node) == <<node>> \o flattenAll(node.children, 1)

\* a plausible slip: the ids in traversal order, unsorted
collectSvgNodeIds_traversalOrder(nodes) ==
    LET all == flattenAll(nodes, 1)
        hits == SelectSeq(all, LAMBDA n : n.renderAs = "svg")
    IN [i \in DOMAIN hits |-> hits[i].id]

collectSvgNodeIds(nodes) ==
    LET all == flattenAll(nodes, 1)
    IN SortedIds({all[i].id : i \in {j \in DOMAIN all : all[j].renderAs = "svg"}})

\* collectImageFillNodes without the test of renderAs
collectImageFillNodes_anyRenderAs(frames) ==
    LET all == flattenAll(frames, 1)
        imgFills(n) == SelectSeq(n.style.fills, LAMBDA f : f.kind = "image")
        hit(j) == /\ Len(imgFills(all[j])) > 0
                  /\ imgFills(all[j])[1].imageRef # ""
        hits == {j \in DOMAIN all : hit(j)}
        first(id) == CHOOSE j \in hits :
                        /\ all[j].id = id
                        /\ \A k \in hits : all[k].id = id => j <= k
    IN [id \in {all[j].id : j \in hits} |->
           [nodeId |-> id, scaleMode |-> imgFills(all[first(id)])[1].scaleMode]]

\* the entries of the map of collectImageFillNodes: the first html node of each id
\* that has an image fill with a non-empty imageRef
collectImageFillNodes(frames) ==
    LET all == flattenAll(frames, 1)
        imgFills(n) == SelectSeq(n.style.fills, LAMBDA f : f.kind = "image")
        hit(j) == /\ all[j].renderAs = "html"
                  /\ Len(imgFills(all[j])) > 0
                  /\ imgFills(all[j])[1].imageRef # ""
        hits == {j \in DOMAIN all : hit(j)}
        first(id) == CHOOSE j \in hits :
                        /\ all[j].id = id
                        /\ \A k \in hits : all[k].id = id => j <= k
    IN [id \in {all[j].id : j \in hits} |->
           [nodeId |-> id, scaleMode |-> imgFills(all[first(id)])[1].scaleMode]]

\* the ImageAssetMap prepareImageAssets returns when the export layer produced
\* bitmaps for the ids in cached
prepareImageAssets(frames, cached) ==
    LET imageNodes == collectImageFillNodes(frames)
    IN [id \in DOMAIN imageNodes \cap cached |->
           [fileName |-> safeId(id) \o <<"@2x.png">>,
            relativePath |-> <<"./assets/">> \o safeId(id) \o <<"@2x.png">>,
            scaleMode |-> imageNodes[id].scaleMode]]

\* the placeholder graphic, as the pieces that are joined
makePlaceholderSvg(nodeId) ==
    <<"<svg aria-label=\"Missing SVG ">> \o safeId(nodeId) \o <<"\">">>
    \o <<"<rect/>", "<line/>", "<line/>", "</svg>">>

\* a plausible slip: an id without an exported file is skipped
emitSvgAssets_noPlaceholder(ids, exported) ==
    [name \in {safeId(ids[i]) \o <<".svg">> : i \in {j \in DOMAIN ids : ids[j] \in exported}} |->
        LET last == CHOOSE i \in DOMAIN ids :
                       /\ ids[i] \in exported
                       /\ safeId(ids[i]) \o <<".svg">> = name
                       /\ \A j \in DOMAIN ids :
                             (ids[j] \in exported /\ safeId(ids[j]) \o <<".svg">> = name)
                                => j <= i
        IN [content |-> "export", of |-> ids[last]]]

\* the files emitSvgAssets writes for ids when the export layer returned paths for
\* the ids in exported: a copy of the export, or the placeholder graphic; of two
\* ids with the same file name the later one in ids overwrites
emitSvgAssets(ids, exported) ==
    [name \in {safeId(ids[i]) \o <<".svg">> : i \in DOMAIN ids} |->
        LET last == CHOOSE i \in DOMAIN ids :
                       /\ safeId(ids[i]) \o <<".svg">> = name
                       /\ \A j \in DOMAIN ids :
                             safeId(ids[j]) \o <<".svg">> = name => j <= i
        IN IF ids[last] \in exported
           THEN [content |-> "export", of |-> ids[last]]
           ELSE [content |-> "placeholder", of |-> ids[last],
                 text |-> makePlaceholderSvg(ids[last])]]

---------------------------------------------------------------------------
(* Inputs: raw Figma documents *)

FileKey == <<"k", "1">>

Digits == <<"1", "2", "3", "4", "5", "6", "7", "8", "9">>

\* the id of the i-th raw node, as Figma writes ids
IdOf(i) == <<"1", ":", Digits[i]>>

Red == [r |-> ChanDen, g |-> 1, b |-> 0, a |-> ChanDen]

Teal == [r |-> 0, g |-> 2, b |-> 3, a |-> 2]

RawSolid(c) == [type |-> "SOLID", color |-> c]

RawLinear ==
    [type |-> "GRADIENT_LINEAR",
     gradientStops |-> <<[position |-> 0, color |-> Red],
                         [position |-> ChanDen, color |-> Teal]>>,
     gradientTransform |-> <<<<1, 0, 0>>, <<0, 1, 0>>>>]

RawImage == [type |-> "IMAGE", imageRef |-> "ref", scaleMode |-> "FIT"]

Box(x, y, w, h) == [x |-> x, y |-> y, width |-> w, height |-> h]

\* the attribute sets a generated raw node takes (its id and children are added)
RawProfiles ==
    { \* a frame with a solid and an image fill, its origin off the 1/1000 px grid
      [type |-> "FRAME", name |-> "frame", opacity |-> 2,
       absoluteBoundingBox |-> Box(10 * Unit + 1, 20 * Unit, 100 * Unit, 50 * Unit),
       fills |-> <<RawSolid(Red), RawImage>>, blendMode |-> "PASS_THROUGH"],
      \* an auto-layout row, its opacity below 0
      [type |-> "FRAME", name |-> "row", layoutMode |-> "HORIZONTAL", opacity |-> 0 - 1,
       absoluteBoundingBox |-> Box(4 * Unit, 6 * Unit + 3, 80 * Unit, 0),
       paddingTop |-> 2 * Unit, itemSpacing |-> Unit,
       primaryAxisAlignItems |-> "SPACE_BETWEEN", counterAxisAlignItems |-> "CENTER",
       fills |-> <<RawSolid(Teal), RawLinear>>],
      \* a text node opted out of its parent's flow, its opacity above 1
      [type |-> "TEXT", name |-> "text", layoutPositioning |-> "ABSOLUTE",
       opacity |-> ChanDen + 2,
       absoluteBoundingBox |-> Box(12 * Unit, 26 * Unit, 30 * Unit, 8 * Unit),
       characters |-> <<"a", "&", "\n">>,
       style |-> [fontFamily |-> "Inter", fontSize |-> 12 * Unit],
       fills |-> <<RawSolid(Teal)>>],
      \* a hidden rectangle
      [type |-> "RECTANGLE", name |-> "hidden", visible |-> FALSE,
       absoluteBoundingBox |-> Box(1 * Unit, 2 * Unit, 3 * Unit, 4 * Unit),
       fills |-> <<RawImage>>],
      \* a kind outside the mapping table
      [type |-> "WIDGET", name |-> "widget", visible |-> TRUE,
       absoluteBoundingBox |-> Box(7 * Unit, 7 * Unit, 9 * Unit, 9 * Unit),
       fills |-> <<RawSolid(Red)>>],
      \* a mask vector without a box, laid out as a column
      [type |-> "VECTOR", name |-> "mask", isMask |-> TRUE, layoutMode |-> "VERTICAL",
       fills |-> <<RawSolid(Red)>>] }

\* record obj with field f set to v
With(obj, f, v) == [k \in DOMAIN obj \cup {f} |-> IF k = f THEN v ELSE obj[k]]

\* the indices above i whose parent is i, ascending
RECURSIVE kidsOf(_, _, _, _)
kidsOf(i, j, n, par) ==
    IF j > n THEN <<>>
    ELSE (IF par[j] = i THEN <<j>> ELSE <<>>) \o kidsOf(i, j + 1, n, par)

\* the raw node at index i of a document of n nodes with parents par and profiles prof;
\* a node without children has no children field
RECURSIVE MkRaw(_, _, _, _)
MkRaw(i, n, par, prof) ==
    LET kids == kidsOf(i, i + 1, n, par)
        base == With(prof[i], "id", IdOf(i))
    IN IF Len(kids) = 0 THEN base
       ELSE With(base, "children", [k \in DOMAIN kids |-> MkRaw(kids[k], n, par, prof)])

MkDocument(n, par, prof) ==
    LET top == kidsOf(0, 1, n, par)
    IN [id |-> <<"0", ":", "0">>, type |-> "DOCUMENT",
        children |-> <<[id |-> <<"0", ":", "1">>, type |-> "CANVAS",
                        children |-> [k \in DOMAIN top |-> MkRaw(top[k], n, par, prof)]]>>]

Documents ==
    { MkDocument(MaxNodes, par, prof) :
        par \in {p \in [1..MaxNodes -> 0..(MaxNodes - 1)] :
                    \A i \in 1..MaxNodes : p[i] \in {0, 1, i - 1} /\ p[i] < i},
        prof \in [1..MaxNodes -> RawProfiles] }

NoResult == [frames |-> <<>>, warnings |-> <<>>, stats |-> ZeroStats]

NoHtml == [title |-> <<>>, body |-> <<>>]

\* no walk over an object graph under way
NoWalk == [status |-> "idle", stack |-> <<>>, visits |-> <<>>]

\* no SVG cache on disk and no export call
NoStore == [status |-> "idle"]

\* the page before it is mounted
NoUi == [status |-> "unmounted"]

---------------------------------------------------------------------------
(* The convert handler: src/unnamed/part_000 (POST), one action per stage *)

Init ==
    /\ document \in Documents
    /\ pc = "start"
    /\ normalized = NoResult
    /\ classifiedFrames = <<>>
    /\ imageAssets = <<>>
    /\ css = <<>>
    /\ html = NoHtml
    /\ svgIds = <<>>
    /\ assetFiles = <<>>
    /\ previous = <<>>
    /\ cacheMap = {}
    /\ normWalk = NoWalk
    /\ outFiles = {}
    /\ response = <<>>
    /\ svgStore = NoStore
    /\ ui = NoUi

\* 4) const normalized = normalizeFile(document)
Normalize ==
    /\ pc = "start"
    /\ normalized' = normalizeFile(document)
    /\ pc' = "normalized"
    /\ UNCHANGED <<ui, svgStore, response, outFiles, normWalk, cacheMap, previous, document, classifiedFrames, imageAssets, css, html, svgIds, assetFiles>>

\* 5) normalized.frames.map(frame => classifyTree(frame))
Classify ==
    /\ pc = "normalized"
    /\ classifiedFrames' = [i \in DOMAIN normalized.frames |->
                               classifyTree(normalized.frames[i])]
    /\ pc' = "classified"
    /\ UNCHANGED <<ui, svgStore, response, outFiles, normWalk, cacheMap, previous, document, normalized, imageAssets, css, html, svgIds, assetFiles>>

\* 7) prepareImageAssets: the export layer yields a bitmap for any subset of the ids
PrepareImageAssets ==
    /\ pc = "classified"
    /\ \E cached \in SUBSET (DOMAIN collectImageFillNodes(classifiedFrames)) :
          imageAssets' = prepareImageAssets(classifiedFrames, cached)
    /\ pc' = "assets"
    /\ UNCHANGED <<ui, svgStore, response, outFiles, normWalk, cacheMap, previous, document, normalized, classifiedFrames, css, html, svgIds, assetFiles>>

\* 8) css = buildStyles(classifiedFrames, imageAssets);
\*    html = buildIndexHtml(fileKey, classifiedFrames)
\* 9) emitFiles writes index.html and styles.css
Build ==
    /\ pc = "assets"
    /\ css' = buildStyles(classifiedFrames, imageAssets)
    /\ html' = buildIndexHtml(FileKey, classifiedFrames)
    /\ pc' = "built"
    /\ outFiles' = {"index.html", "styles.css"}
    /\ UNCHANGED <<ui, svgStore, response, normWalk, cacheMap, previous, document, normalized, classifiedFrames, imageAssets, svgIds, assetFiles>>

\* 10) emitSvgAssets: the export layer yields an SVG for any subset of the ids
\* 11) emitManifest writes nodes.json   12) the handler responds ok: true
EmitSvgAssets ==
    /\ pc = "built"
    /\ svgIds' = collectSvgNodeIds(classifiedFrames)
    /\ \E exported \in SUBSET {svgIds'[i] : i \in DOMAIN svgIds'} :
          /\ cacheMap' = exported
          /\ assetFiles' = emitSvgAssets(svgIds', exported)
    /\ pc' = "done"
    /\ outFiles' = outFiles \cup {"nodes.json"}
    /\ response' = <<[ok |-> TRUE, status |-> 200]>>
    /\ UNCHANGED <<ui, svgStore, normWalk, previous, document, normalized, classifiedFrames, imageAssets, css, html>>

Next ==
    \/ Normalize
    \/ Classify
    \/ PrepareImageAssets
    \/ Build
    \/ EmitSvgAssets

Spec == Init /\ [][Next]_vars

---------------------------------------------------------------------------
(* Direct calls of the classifier and the stylesheet emitter on one normalized   *)
(* node: the style is drawn from every combination of the entries below, which   *)
(* include a fill kind foreign to the normalizer (the classifier's default case) *)

FillPalette ==
    { [kind |-> "solid", color |-> Red],
      [kind |-> "solid", color |-> Teal],
      [kind |-> "linearGradient", angle |-> 90,
       stops |-> <<[position |-> 0, color |-> Red], [position |-> ChanDen, color |-> Teal]>>],
      [kind |-> "image", imageRef |-> "ref", scaleMode |-> "TILE"],
      [kind |-> "pattern"] }

StrokePalette ==
    { [kind |-> "solid", alignment |-> "CENTER", width |-> Unit, color |-> Red],
      [kind |-> "solid", alignment |-> "CENTER", width |-> Unit, color |-> Red,
       dashPattern |-> <<>>],
      [kind |-> "solid", alignment |-> "CENTER", width |-> Unit, color |-> Red,
       dashPattern |-> <<2, 1>>],
      [kind |-> "solid", alignment |-> "INSIDE", width |-> 2 * Unit, color |-> Teal],
      [kind |-> "gradient", alignment |-> "CENTER", width |-> Unit,
       gradient |-> [stops |-> <<>>, angle |-> 0]] }

EffectPalette ==
    { [type |-> "DROP_SHADOW", x |-> 0, y |-> Unit, blur |-> 2 * Unit, spread |-> 0,
       color |-> Teal],
      [type |-> "INNER_SHADOW", x |-> 0, y |-> 0, blur |-> Unit, spread |-> 0,
       color |-> Red],
      [type |-> "LAYER_BLUR", blur |-> Unit] }

\* "" stands for a style without the blendMode field
BlendModes == {"", "NORMAL", "PASS_THROUGH", "MULTIPLY"}

DefaultTypography ==
    [fontFamily |-> "system-ui", fontWeight |-> 0, fontSize |-> 14 * Unit,
     lineHeightPx |-> 0, letterSpacing |-> 0, textDecoration |-> "NONE",
     textAlignHorizontal |-> "LEFT"]

MkNode(kind, fills, strokes, effects, mask, blend) ==
    LET base == [fills |-> fills, strokes |-> strokes, borderRadius |-> <<>>,
                 effects |-> effects,
                 typography |-> IF kind = "text" THEN <<DefaultTypography>> ELSE <<>>,
                 opacity |-> One, hasMask |-> mask]
    IN [id |-> IdOf(1), name |-> "node", type |-> kind,
        layout |-> [display |-> "absolute", x |-> 0, y |-> 0,
                    width |-> 10 * Unit, height |-> 10 * Unit],
        style |-> IF blend = "" THEN base ELSE With(base, "blendMode", blend),
        text |-> IF kind = "text" THEN <<<<"a">>>> ELSE <<>>,
        children |-> <<>>]

InitNode ==
    /\ document = [type |-> "DOCUMENT"]
    /\ pc = "normalized"
    /\ \E kind \in {"text", "frame"}, mask \in BOOLEAN, blend \in BlendModes,
          nf \in 0..MaxItems :
          \E ns \in 0..(MaxItems - nf) :
             \E ne \in 0..(MaxItems - nf - ns) :
                \E fills \in [1..nf -> FillPalette], strokes \in [1..ns -> StrokePalette],
                   effects \in [1..ne -> EffectPalette] :
                   normalized = [frames |-> <<MkNode(kind, fills, strokes, effects,
                                                     mask, blend)>>,
                                 warnings |-> <<>>, stats |-> ZeroStats]
    /\ classifiedFrames = <<>>
    /\ imageAssets = <<>>
    /\ css = <<>>
    /\ html = NoHtml
    /\ svgIds = <<>>
    /\ assetFiles = <<>>
    /\ previous = <<>>
    /\ cacheMap = {}
    /\ normWalk = NoWalk
    /\ outFiles = {}
    /\ response = <<>>
    /\ svgStore = NoStore
    /\ ui = NoUi

NextNode ==
    \/ Classify
    \/ PrepareImageAssets
    \/ Build

SpecNode == InitNode /\ [][NextNode]_vars

---------------------------------------------------------------------------
(* Vocabulary of the properties, stated on the data and not through the        *)
(* operators of the pipeline                                                   *)

\* the classified nodes of the run, in pre-order
ClassifiedNodes == flattenAll(classifiedFrames, 1)

\* the stylesheet and the markup of the run have been built
Styled == pc \in {"built", "done"}

\* the declarations of the block of a node id, and those of one property
BlockRules(id) ==
    LET hits == SelectSeq(css, LAMBDA b : b.selector = cssClass(id))
    IN IF Len(hits) = 0 THEN <<>> ELSE hits[1].rules

DeclsOf(rules, prop) == SelectSeq(rules, LAMBDA d : d.prop = prop)

SupportedFillKinds ==
    {"solid", "linearGradient", "radialGradient", "conicGradient", "image"}

ComplexStrokes(st) ==
    \/ Len(st.strokes) > 1
    \/ /\ Len(st.strokes) = 1
       /\ \/ st.strokes[1].kind # "solid"
          \/ st.strokes[1].alignment # "CENTER"
          \/ ("dashPattern" \in DOMAIN st.strokes[1] /\ Len(st.strokes[1].dashPattern) > 0)

UnknownFillKind(st) == \E i \in DOMAIN st.fills : st.fills[i].kind \notin SupportedFillKinds

UnsafeBlend(st) ==
    "blendMode" \in DOMAIN st /\ st.blendMode \notin {"NORMAL", "PASS_THROUGH"}

ShadowCount(st) ==
    Cardinality({i \in DOMAIN st.effects :
                    st.effects[i].type \in {"DROP_SHADOW", "INNER_SHADOW"}})

ComplexEffects(st) ==
    \/ ShadowCount(st) > 1
    \/ \E i \in DOMAIN st.effects : st.effects[i].type \in {"LAYER_BLUR", "BACKGROUND_BLUR"}

FallbackTrigger(st) ==
    st.hasMask \/ ComplexStrokes(st) \/ UnknownFillKind(st) \/ UnsafeBlend(st)
    \/ ComplexEffects(st)

\* v is the 0..255 value nearest to the 0..1 channel ch
IsByteOf(v, ch) ==
    /\ v \in 0..ByteMax
    /\ 2 * ChanDen * v - ChanDen <= 2 * ByteMax * ch
    /\ 2 * ByteMax * ch < 2 * ChanDen * v + ChanDen

IsColorOf(c, color) ==
    IsByteOf(c.r, color.r) /\ IsByteOf(c.g, color.g) /\ IsByteOf(c.b, color.b)

---------------------------------------------------------------------------
(* Classifier *)

\* C1: a non-text node is classified svg exactly when it has a mask, complex
\* strokes, a fill of an unknown kind, an unsafe blend mode, or effects with more
\* than one shadow or any blur; otherwise it is classified html.
C1_NonTextClassification ==
    \A i \in DOMAIN ClassifiedNodes :
       LET n == ClassifiedNodes[i]
       IN n.type # "text" =>
            /\ (n.renderAs = "svg") <=> FallbackTrigger(n.style)
            /\ n.renderAs \in {"svg", "html"}

\* a frame sent to svg by its two shadows alone, blend mode PASS_THROUGH
C1_Witness ==
    \E i \in DOMAIN ClassifiedNodes :
       LET n == ClassifiedNodes[i]
       IN /\ n.type # "text"
          /\ n.renderAs = "svg"
          /\ ShadowCount(n.style) = 2
          /\ ~n.style.hasMask /\ ~ComplexStrokes(n.style) /\ ~UnknownFillKind(n.style)
          /\ "blendMode" \in DOMAIN n.style /\ n.style.blendMode = "PASS_THROUGH"

\* C2: a text node is classified svg when any of the same triggers applies and
\* text otherwise; every node with two strokes is classified svg.
C2_TextClassification ==
    \A i \in DOMAIN ClassifiedNodes :
       LET n == ClassifiedNodes[i]
       IN /\ n.type = "text" =>
               /\ (n.renderAs = "svg") <=> FallbackTrigger(n.style)
               /\ n.renderAs \in {"svg", "html-text"}
          /\ Len(n.style.strokes) = 2 => n.renderAs = "svg"

\* a text node with two plain strokes and nothing else is classified svg
C2_Witness ==
    \E i \in DOMAIN ClassifiedNodes :
       LET n == ClassifiedNodes[i]
       IN /\ n.type = "text"
          /\ Len(n.style.strokes) = 2
          /\ \A k \in 1..2 : /\ n.style.strokes[k].kind = "solid"
                             /\ n.style.strokes[k].alignment = "CENTER"
                             /\ "dashPattern" \notin DOMAIN n.style.strokes[k]
          /\ ~n.style.hasMask /\ ~UnknownFillKind(n.style) /\ ~UnsafeBlend(n.style)
          /\ ~ComplexEffects(n.style)
          /\ n.renderAs = "svg"

---------------------------------------------------------------------------
(* Text colour and fill layers *)

NormalBlend(st) == "blendMode" \notin DOMAIN st \/ st.blendMode = "NORMAL"

PlainText(n) ==
    /\ n.type = "text"
    /\ Len(n.style.fills) = 1 /\ n.style.fills[1].kind = "solid"
    /\ Len(n.style.strokes) = 0
    /\ ~n.style.hasMask
    /\ NormalBlend(n.style)

\* the block of a text-classified node: its colour is that of the first solid
\* fill, if any, and it has no background
TextColourRules(n) ==
    LET rules == BlockRules(n.id)
        colour == DeclsOf(rules, "color")
        solid == SelectSeq(n.style.fills, LAMBDA f : f.kind = "solid")
    IN /\ IF Len(solid) = 0 THEN Len(colour) = 0
          ELSE Len(colour) = 1 /\ IsColorOf(colour[1].val, solid[1].color)
       /\ Len(DeclsOf(rules, "background")) = 0
       /\ Len(DeclsOf(rules, "background-color")) = 0
       /\ Len(DeclsOf(rules, "background-image")) = 0

IsLayerOf(layer, f) ==
    CASE f.kind = "solid" -> layer.fn = "color" /\ IsColorOf(layer.color, f.color)
      [] f.kind = "linearGradient" ->
           layer.fn = "linear-gradient" /\ layer.angle = f.angle
           /\ Len(layer.stops) = Len(f.stops)
      [] f.kind = "radialGradient" ->
           layer.fn = "radial-gradient" /\ Len(layer.stops) = Len(f.stops)
      [] f.kind = "conicGradient" ->
           layer.fn = "conic-gradient" /\ layer.angle = f.angle
           /\ Len(layer.stops) = Len(f.stops)
      [] OTHER -> FALSE

\* C10: for a non-text markup node the background layer list holds one layer
\* per non-image fill, in the reverse of the declaration order; image fills
\* never appear in it.
C10_FillLayersReversed ==
    Styled =>
      \A i \in DOMAIN ClassifiedNodes :
         LET n == ClassifiedNodes[i]
             usable == SelectSeq(n.style.fills, LAMBDA f : f.kind # "image")
             bg == DeclsOf(BlockRules(n.id), "background")
         IN n.renderAs = "html" =>
              IF Len(usable) = 0 THEN Len(bg) = 0
              ELSE /\ Len(bg) = 1
                   /\ Len(bg[1].val) = Len(usable)
                   /\ \A k \in DOMAIN usable :
                         IsLayerOf(bg[1].val[k], usable[Len(usable) + 1 - k])

\* a markup node with fills solid, image, gradient: two layers, gradient first
C10_Witness ==
    /\ Styled
    /\ \E i \in DOMAIN ClassifiedNodes :
          LET n == ClassifiedNodes[i]
              bg == DeclsOf(BlockRules(n.id), "background")
          IN /\ n.renderAs = "html"
             /\ Len(n.style.fills) = 3
             /\ n.style.fills[1].kind = "solid"
             /\ n.style.fills[2].kind = "image"
             /\ n.style.fills[3].kind = "linearGradient"
             /\ Len(bg) = 1 /\ Len(bg[1].val) = 2
             /\ bg[1].val[1].fn = "linear-gradient" /\ bg[1].val[2].fn = "color"

---------------------------------------------------------------------------
(* Vocabulary of the tree properties *)

\* the nodes of a forest in pre-order, each with its immediate parent (<<>> or <<p>>)
RECURSIVE walk(_, _)
RECURSIVE walkAll(_, _, _)
walkAll(nodes, i, parent) ==
    IF i > Len(nodes) THEN <<>>
    ELSE walk(nodes[i], parent) \o walkAll(nodes, i + 1, parent)

walk(node, parent) ==
    <<[node |-> node, parent |-> parent]>>
    \o walkAll(IF "children" \in DOMAIN node THEN node.children ELSE <<>>, 1, <<node>>)

RECURSIVE walkPages(_, _)
walkPages(pages, i) ==
    IF i > Len(pages) THEN <<>>
    ELSE walkAll(IF "children" \in DOMAIN pages[i] THEN pages[i].children ELSE <<>>,
                 1, <<>>)
         \o walkPages(pages, i + 1)

\* the raw nodes under the pages of the document; a page child has no parent node
RawEntries ==
    walkPages(IF "children" \in DOMAIN document THEN document.children ELSE <<>>, 1)

RawEntryOf(id) ==
    RawEntries[CHOOSE k \in DOMAIN RawEntries : RawEntries[k].node.id = id]

NormEntries == walkAll(normalized.frames, 1, <<>>)

NormIds == LET ne == NormEntries IN {ne[k].node.id : k \in DOMAIN ne}

\* each normalized node with the raw node of its id and that raw node's parent
Paired ==
    LET ne == NormEntries
        re == RawEntries
    IN [k \in DOMAIN ne |->
           [node |-> ne[k].node,
            e |-> re[CHOOSE j \in DOMAIN re : re[j].node.id = ne[k].node.id]]]

SubtreeIds(node) == LET sub == walk(node, <<>>) IN {sub[k].node.id : k \in DOMAIN sub}

RECURSIVE MarkupClasses(_)
MarkupClasses(el) ==
    {el.cls} \cup (IF el.tag = "div"
                   THEN UNION {MarkupClasses(el.children[i]) : i \in DOMAIN el.children}
                   ELSE {})

HtmlClasses == UNION {MarkupClasses(html.body[i]) : i \in DOMAIN html.body}

CssSelectors == {css[i].selector : i \in DOMAIN css}

MappedKinds ==
    {"FRAME", "GROUP", "COMPONENT", "INSTANCE", "SECTION", "TEXT",
     "VECTOR", "LINE", "ELLIPSE", "REGULAR_POLYGON", "STAR", "BOOLEAN_OPERATION",
     "RECTANGLE"}

NonVisualKinds == {"SLICE", "GUIDE", "COMPONENT_SET"}

Field(obj, f, dflt) == IF f \in DOMAIN obj THEN obj[f] ELSE dflt

DeclaresFlow(raw) == Field(raw, "layoutMode", "NONE") \in {"HORIZONTAL", "VERTICAL"}

OptedOut(raw) == Field(raw, "layoutPositioning", "AUTO") = "ABSOLUTE"

ParentDeclaresFlow(entry) == Len(entry.parent) > 0 /\ DeclaresFlow(entry.parent[1])

HasXY(layout) == "x" \in DOMAIN layout \/ "y" \in DOMAIN layout

\* a coordinate of the origin of the absolute bounding box of a raw node, 0 without box
Origin(raw, f) ==
    IF "absoluteBoundingBox" \in DOMAIN raw THEN raw.absoluteBoundingBox[f] ELSE 0

ParentOrigin(entry, f) == IF Len(entry.parent) = 0 THEN 0 ELSE Origin(entry.parent[1], f)

---------------------------------------------------------------------------
(* Classifier: non-interference *)

\* C3: classification is stable and depends on nothing but the node's own kind
\* and style: any two classified nodes of equal kind and equal style have the
\* same render strategy, whatever their name, id, layout, parent, siblings and
\* children.
C3_DependsOnKindAndStyleOnly ==
    LET nodes == ClassifiedNodes
    IN \A i, j \in DOMAIN nodes :
       LET a == nodes[i]
           b == nodes[j]
       IN (a.type = b.type /\ a.style = b.style) => a.renderAs = b.renderAs

\* two frames of equal style classified alike, one of them with a masked child
\* and another layout
C3_Witness ==
    \E i, j \in DOMAIN ClassifiedNodes :
       LET a == ClassifiedNodes[i]
           b == ClassifiedNodes[j]
       IN /\ a.type = b.type /\ a.style = b.style
          /\ a.id # b.id /\ a.layout # b.layout
          /\ Len(a.children) = 0
          /\ \E k \in DOMAIN b.children : b.children[k].style.hasMask
          /\ a.renderAs = "html" /\ b.renderAs = "html"

---------------------------------------------------------------------------
(* Normalizer *)

\* C5: a raw node whose kind is not in the mapping table is absent from the
\* normalized tree together with its whole subtree: neither it nor any
\* descendant appears in the normalized tree, the stylesheet, the markup or the
\* asset requests.
C5_UnmappedSubtreeAbsent ==
    LET re == RawEntries
        gone == UNION {SubtreeIds(re[k].node) :
                          k \in {j \in DOMAIN re : re[j].node.type \notin MappedKinds}}
        classified == ClassifiedNodes
        selectors == CssSelectors
        classes == HtmlClasses
        normIds == NormIds
    IN \A id \in gone :
          /\ id \notin normIds
          /\ \A i \in DOMAIN classified : classified[i].id # id
          /\ cssClass(id) \notin selectors
          /\ cssClass(id) \notin classes
          /\ id \notin DOMAIN imageAssets
          /\ \A i \in DOMAIN svgIds : svgIds[i] # id
          /\ \A name \in DOMAIN assetFiles : assetFiles[name].of # id

\* a finished run on a document where a nested node of unmapped kind has a
\* visible child of a mapped kind, and the output is not empty
C5_Witness ==
    /\ pc = "done"
    /\ Len(css) > 1 /\ Len(html.body) > 0
    /\ \E k \in DOMAIN RawEntries :
          LET e == RawEntries[k]
          IN /\ e.node.type \notin MappedKinds \cup NonVisualKinds
             /\ Len(e.parent) > 0 /\ e.parent[1].id \in NormIds
             /\ "children" \in DOMAIN e.node
             /\ \E c \in DOMAIN e.node.children :
                   /\ e.node.children[c].type \in MappedKinds
                   /\ Field(e.node.children[c], "visible", TRUE)

\* C6 as stated: no raw node that is explicitly invisible or of a non-visual
\* kind, top-level or nested, appears in the normalized tree.
C6_NoInvisibleNodeAtAnyDepth ==
    \A k \in DOMAIN RawEntries :
       LET raw == RawEntries[k].node
       IN (Field(raw, "visible", TRUE) = FALSE \/ raw.type \in NonVisualKinds)
             => raw.id \notin NormIds

---------------------------------------------------------------------------
(* Layout resolution *)

\* C7: layout resolution is first-match-wins over three cases: a node that
\* declares its own flow mode becomes a flow container (row for HORIZONTAL,
\* column for VERTICAL); otherwise a node whose parent declares flow and that is
\* not opted out becomes a flow item with width/height and no x/y; otherwise the
\* node is absolutely positioned with x, y, width and height.
C7_LayoutFirstMatchWins ==
    LET paired == Paired
    IN \A k \in DOMAIN paired :
       LET layout == paired[k].node.layout
           e == paired[k].e
       IN IF DeclaresFlow(e.node)
          THEN /\ layout.display = "flex"
               /\ layout.direction = (IF e.node.layoutMode = "HORIZONTAL"
                                      THEN "row" ELSE "column")
          ELSE IF ParentDeclaresFlow(e) /\ ~OptedOut(e.node)
          THEN /\ layout.display = "block"
               /\ {"width", "height"} \subseteq DOMAIN layout
               /\ ~HasXY(layout)
          ELSE /\ layout.display = "absolute"
               /\ {"x", "y", "width", "height"} \subseteq DOMAIN layout

\* a row nested in a row is a flow container (the first case wins over the
\* second) and its sibling, a plain node in the same row, is a flow item
C7_Witness ==
    /\ \E k \in DOMAIN NormEntries :
          LET e == RawEntryOf(NormEntries[k].node.id)
          IN /\ DeclaresFlow(e.node) /\ ParentDeclaresFlow(e) /\ ~OptedOut(e.node)
             /\ NormEntries[k].node.layout.display = "flex"
    /\ \E k \in DOMAIN NormEntries :
          LET e == RawEntryOf(NormEntries[k].node.id)
          IN /\ ~DeclaresFlow(e.node) /\ ParentDeclaresFlow(e) /\ ~OptedOut(e.node)
             /\ NormEntries[k].node.layout.display = "block"

\* C8 as stated: a node's layout is absolute only when neither the node itself
\* nor its immediate parent establishes flow; a flow container never carries
\* x/y and a child of a flow container never carries x/y.
C8_AsStated ==
    LET paired == Paired
    IN \A k \in DOMAIN paired :
       LET layout == paired[k].node.layout
           e == paired[k].e
       IN /\ layout.display = "absolute" =>
               (~DeclaresFlow(e.node) /\ ~ParentDeclaresFlow(e))
          /\ layout.display = "flex" => ~HasXY(layout)
          /\ ParentDeclaresFlow(e) => ~HasXY(layout)

\* C8 with the opt-out: a node's layout is absolute only when the node does not
\* establish flow and either its immediate parent does not establish flow or the
\* node is opted out of the parent's flow; a flow container never carries x/y,
\* and a child of a flow container carries x/y only when it is opted out.
C8_AbsoluteOnlyOutsideFlow ==
    LET paired == Paired
    IN \A k \in DOMAIN paired :
       LET layout == paired[k].node.layout
           e == paired[k].e
       IN /\ layout.display = "absolute" =>
               (~DeclaresFlow(e.node) /\ (~ParentDeclaresFlow(e) \/ OptedOut(e.node)))
          /\ layout.display = "flex" => ~HasXY(layout)
          /\ (ParentDeclaresFlow(e) /\ HasXY(layout)) => OptedOut(e.node)

\* a row with an opted-out child that is absolute, and a second child, in the
\* flow, that carries no x/y
C8_Witness ==
    /\ \E k \in DOMAIN NormEntries :
          LET e == RawEntryOf(NormEntries[k].node.id)
          IN /\ ParentDeclaresFlow(e) /\ OptedOut(e.node)
             /\ NormEntries[k].node.layout.display = "absolute"
    /\ \E k \in DOMAIN NormEntries :
          LET e == RawEntryOf(NormEntries[k].node.id)
          IN /\ ParentDeclaresFlow(e) /\ ~OptedOut(e.node)
             /\ ~HasXY(NormEntries[k].node.layout)

\* x and y of an absolute node are its box origin minus that of its immediate parent
RelativeToParent(layout, e) ==
    /\ layout.x = Origin(e.node, "x") - ParentOrigin(e, "x")
    /\ layout.y = Origin(e.node, "y") - ParentOrigin(e, "y")

\* v thousandths of a pixel is the coordinate c rounded to the nearest thousandth
IsThousandthsOf(v, c) ==
    /\ 2 * v * Unit - Unit <= 2 * c * PxScale
    /\ 2 * c * PxScale < 2 * v * Unit + Unit

\* C9 as stated: for every absolutely positioned node, x and y equal the node's
\* box origin minus the box origin of its immediate parent, (0,0) when the parent
\* has no box or the node is top-level; the stylesheet's left/top are exactly
\* these values.
C9_AsStated ==
    LET paired == Paired
    IN \A k \in DOMAIN paired :
       LET n == paired[k].node
           e == paired[k].e
           left == DeclsOf(BlockRules(n.id), "left")
           top == DeclsOf(BlockRules(n.id), "top")
       IN n.layout.display = "absolute" =>
            /\ RelativeToParent(n.layout, e)
            /\ Styled => /\ Len(left) = 1 /\ left[1].val * Unit = n.layout.x * PxScale
                         /\ Len(top) = 1 /\ top[1].val * Unit = n.layout.y * PxScale

\* C9 with the rounding: the same x and y; the stylesheet's left/top are these
\* values rounded to the nearest thousandth of a pixel, taken from the
\* normalized layout and not recomputed from the boxes.
C9_OffsetsRelativeToParent ==
    LET paired == Paired
    IN \A k \in DOMAIN paired :
       LET n == paired[k].node
           e == paired[k].e
           left == DeclsOf(BlockRules(n.id), "left")
           top == DeclsOf(BlockRules(n.id), "top")
       IN n.layout.display = "absolute" =>
            /\ RelativeToParent(n.layout, e)
            /\ Styled => /\ Len(left) = 1 /\ IsThousandthsOf(left[1].val, n.layout.x)
                         /\ Len(top) = 1 /\ IsThousandthsOf(top[1].val, n.layout.y)

\* a styled run with an absolute node two levels down whose parent and
\* grandparent have boxes with different non-zero origins
C9_Witness ==
    /\ Styled
    /\ \E k \in DOMAIN NormEntries :
          LET n == NormEntries[k].node
              e == RawEntryOf(n.id)
          IN /\ n.layout.display = "absolute"
             /\ Len(e.parent) > 0
             /\ "absoluteBoundingBox" \in DOMAIN e.parent[1]
             /\ Origin(e.parent[1], "x") # 0
             /\ Len(RawEntryOf(e.parent[1].id).parent) > 0
             /\ Origin(e.parent[1], "x") # ParentOrigin(RawEntryOf(e.parent[1].id), "x")
             /\ Origin(e.parent[1], "x") # Origin(e.node, "x")
             /\ Len(DeclsOf(BlockRules(n.id), "left")) = 1

---------------------------------------------------------------------------
(* Opacity *)

\* C11 as stated: the opacity emitted in the stylesheet is always within [0,1];
\* an input opacity below 0 is emitted as 0 and an input opacity above 1 is
\* emitted as 1.
C11_AsStated ==
    Styled =>
      LET nodes == ClassifiedNodes
      IN \A i \in DOMAIN nodes :
            LET n == nodes[i]
                op == DeclsOf(BlockRules(n.id), "opacity")
            IN /\ \A k \in DOMAIN op : op[k].val \in 0..One
               /\ (n.renderAs # "svg" /\ n.style.opacity < 0) =>
                     (Len(op) = 1 /\ op[1].val = 0)
               /\ (n.renderAs # "svg" /\ n.style.opacity > One) =>
                     (Len(op) = 1 /\ op[1].val = One)

\* C11 with the guard: the opacity emitted in the stylesheet is always within
\* [0,1]; an input opacity below 0 is emitted as 0, an input opacity below 1 is
\* emitted as it is, and for an input opacity of 1 or more no opacity
\* declaration is emitted at all.
C11_OpacityClamped ==
    Styled =>
      LET nodes == ClassifiedNodes
      IN \A i \in DOMAIN nodes :
            LET n == nodes[i]
                op == DeclsOf(BlockRules(n.id), "opacity")
            IN /\ \A k \in DOMAIN op : op[k].val \in 0..One
               /\ (n.renderAs # "svg" /\ n.style.opacity < 0) =>
                     (Len(op) = 1 /\ op[1].val = 0)
               /\ (n.renderAs # "svg" /\ n.style.opacity \in 0..(One - 1)) =>
                     (Len(op) = 1 /\ op[1].val = n.style.opacity)
               /\ n.style.opacity >= One => Len(op) = 0

\* a styled run with a markup node of negative opacity emitted as 0 and a text
\* node of opacity above 1 whose block has no opacity declaration
C11_Witness ==
    /\ Styled
    /\ \E i \in DOMAIN ClassifiedNodes :
          LET n == ClassifiedNodes[i]
              op == DeclsOf(BlockRules(n.id), "opacity")
          IN n.renderAs = "html" /\ n.style.opacity < 0 /\ Len(op) = 1 /\ op[1].val = 0
    /\ \E i \in DOMAIN ClassifiedNodes :
          LET n == ClassifiedNodes[i]
          IN /\ n.renderAs = "html-text" /\ n.style.opacity > One
             /\ Len(BlockRules(n.id)) > 0
             /\ Len(DeclsOf(BlockRules(n.id), "opacity")) = 0

---------------------------------------------------------------------------
(* The convert handler on a document of one frame with one gradient paint whose *)
(* gradientTransform is well-formed, in any of the eight compass directions and *)
(* the degenerate one, or malformed                                             *)

Directions ==
    {d \in (-MaxMag..MaxMag) \X (-MaxMag..MaxMag) :
        d[1] = 0 \/ d[2] = 0 \/ d[1] = d[2] \/ d[1] = -d[2]}

GradientPaints ==
    LET base(type) == [type |-> type,
                       gradientStops |-> <<[position |-> 0, color |-> Red],
                                           [position |-> ChanDen, color |-> Teal]>>]
    IN UNION {
         {With(base(type), "gradientTransform", <<<<d[1], -d[2], 0>>, <<d[2], d[1], 0>>>>) :
             d \in Directions}
         \cup {base(type),
               With(base(type), "gradientTransform", <<>>),
               With(base(type), "gradientTransform", <<<<1, 0, 0>>>>),
               With(base(type), "gradientTransform", <<<<1>>, <<0>>>>)} :
         type \in {"GRADIENT_LINEAR", "GRADIENT_ANGULAR"} }

InitAngle ==
    /\ \E paint \in GradientPaints :
          document =
            [id |-> <<"0", ":", "0">>, type |-> "DOCUMENT",
             children |-> <<[id |-> <<"0", ":", "1">>, type |-> "CANVAS",
                             children |-> <<[id |-> IdOf(1), type |-> "FRAME",
                                             name |-> "frame",
                                             absoluteBoundingBox |->
                                                 Box(0, 0, 10 * Unit, 10 * Unit),
                                             fills |-> <<paint>>]>>]>>]
    /\ pc = "start"
    /\ normalized = NoResult
    /\ classifiedFrames = <<>>
    /\ imageAssets = <<>>
    /\ css = <<>>
    /\ html = NoHtml
    /\ svgIds = <<>>
    /\ assetFiles = <<>>
    /\ previous = <<>>
    /\ cacheMap = {}
    /\ normWalk = NoWalk
    /\ outFiles = {}
    /\ response = <<>>
    /\ svgStore = NoStore
    /\ ui = NoUi

SpecAngle == InitAngle /\ [][Next]_vars

\* the paint of the document of SpecAngle and the fill normalized from it
ThePaint == document.children[1].children[1].fills[1]

TheFill == normalized.frames[1].style.fills[1]

WellFormed(paint) ==
    /\ "gradientTransform" \in DOMAIN paint
    /\ Len(paint.gradientTransform) >= 2
    /\ Len(paint.gradientTransform[1]) >= 2
    /\ Len(paint.gradientTransform[2]) >= 2

\* the angle of the vector (a, b) from the x axis, in [0,360)
GeometricAngle(a, b) ==
    CASE a > 0 /\ b = 0 -> 0
      [] a > 0 /\ b > 0 -> 45
      [] a = 0 /\ b > 0 -> 90
      [] a < 0 /\ b > 0 -> 135
      [] a < 0 /\ b = 0 -> 180
      [] a < 0 /\ b < 0 -> 225
      [] a = 0 /\ b < 0 -> 270
      [] a > 0 /\ b < 0 -> 315

\* C12: the gradient angle computed from the direction vector (first column of
\* the transform) is always in [0,360) and is (90 - geometricAngle) mod 360:
\* direction (1,0) gives 90, direction (0,1) gives 0, and a degenerate direction
\* (0,0) or a missing or malformed transform gives 0.
C12_GradientAngle ==
    pc # "start" =>
      LET paint == ThePaint
          a == paint.gradientTransform[1][1]
          b == paint.gradientTransform[2][1]
      IN /\ TheFill.angle \in 0..359
         /\ IF ~WellFormed(paint) THEN TheFill.angle = 0
            ELSE IF a = 0 /\ b = 0 THEN TheFill.angle = 0
            ELSE /\ TheFill.angle = (90 - GeometricAngle(a, b)) % 360
                 /\ (a > 0 /\ b = 0) => TheFill.angle = 90
                 /\ (a = 0 /\ b > 0) => TheFill.angle = 0

\* a direction in the third quadrant, where 90 - 225 wraps around to 225
C12_Witness ==
    /\ pc = "normalized"
    /\ WellFormed(ThePaint)
    /\ ThePaint.gradientTransform[1][1] < 0
    /\ ThePaint.gradientTransform[2][1] < 0
    /\ TheFill.angle = 225

---------------------------------------------------------------------------
(* Two requests for the same file: the handler runs again on the same document, *)
(* with whatever the export layer yields the second time                        *)

\* a second POST for the file, after the first one returned
Rerun ==
    /\ pc = "done"
    /\ Len(previous) = 0
    /\ previous' = <<[css |-> css, html |-> html, svgIds |-> svgIds,
                      imageAssets |-> imageAssets]>>
    /\ pc' = "start"
    /\ normalized' = NoResult
    /\ classifiedFrames' = <<>>
    /\ imageAssets' = <<>>
    /\ css' = <<>>
    /\ html' = NoHtml
    /\ svgIds' = <<>>
    /\ assetFiles' = <<>>
    /\ cacheMap' = {}
    /\ outFiles' = {}
    /\ response' = <<>>
    /\ UNCHANGED <<ui, svgStore, normWalk, document>>

InitTwice ==
    /\ document \in {MkDocument(MaxNodes - 1, par, prof) :
                        par \in [1..(MaxNodes - 1) -> {0}],
                        prof \in [1..(MaxNodes - 1) -> RawProfiles]}
    /\ pc = "start"
    /\ normalized = NoResult
    /\ classifiedFrames = <<>>
    /\ imageAssets = <<>>
    /\ css = <<>>
    /\ html = NoHtml
    /\ svgIds = <<>>
    /\ assetFiles = <<>>
    /\ previous = <<>>
    /\ cacheMap = {}
    /\ normWalk = NoWalk
    /\ outFiles = {}
    /\ response = <<>>
    /\ svgStore = NoStore
    /\ ui = NoUi

NextTwice ==
    \/ Next
    \/ Rerun

SpecTwice == InitTwice /\ [][NextTwice]_vars

\* the second request has returned
SecondDone == pc = "done" /\ Len(previous) = 1

---------------------------------------------------------------------------
(* Image-fallback assets *)

\* the ids of the nodes classified svg, in pre-order
SvgNodeIdsInOrder ==
    LET hits == SelectSeq(ClassifiedNodes, LAMBDA n : n.renderAs = "svg")
    IN [i \in DOMAIN hits |-> hits[i].id]

\* C14: the list of node ids handed to the SVG export layer is exactly the set
\* of ids of the nodes classified image-fallback anywhere in the classified
\* trees: every such id is present, no other id is present, each id occurs once
\* and the list is sorted ascending.
C14_SvgIdsExact ==
    pc = "done" =>
       LET wanted == SvgNodeIdsInOrder
       IN /\ {svgIds[i] : i \in DOMAIN svgIds} = {wanted[i] : i \in DOMAIN wanted}
          /\ \A i, j \in DOMAIN svgIds : i < j => StrLess(svgIds[i], svgIds[j])

\* two image-fallback nodes met in descending order of id by the traversal, in
\* a tree that also has a markup node
C14_Witness ==
    /\ pc = "done"
    /\ Len(svgIds) = 2
    /\ SvgNodeIdsInOrder = <<svgIds[2], svgIds[1]>>
    /\ \E i \in DOMAIN ClassifiedNodes : ClassifiedNodes[i].renderAs = "html"


\* the image elements of the markup
RECURSIVE MarkupImages(_)
MarkupImages(el) ==
    IF el.tag = "img" THEN {[cls |-> el.cls, src |-> el.src]}
    ELSE IF el.tag = "div"
    THEN UNION {MarkupImages(el.children[i]) : i \in DOMAIN el.children}
    ELSE {}

HtmlImages == UNION {MarkupImages(html.body[i]) : i \in DOMAIN html.body}

\* C15: for every requested image-fallback id without an entry in the mapping
\* returned by the export layer a non-empty placeholder graphic is written at
\* assets/<safeId(id)>.svg, and for every id with an entry the exported file is
\* copied there; that address is the one the markup emitter put in the node's
\* image element.
C15_PlaceholderOrExport ==
    pc = "done" =>
       LET images == HtmlImages
       IN \A i \in DOMAIN svgIds :
             LET id == svgIds[i]
                 name == safeId(id) \o <<".svg">>
             IN /\ name \in DOMAIN assetFiles
                /\ assetFiles[name].of = id
                /\ IF id \in cacheMap THEN assetFiles[name].content = "export"
                   ELSE /\ assetFiles[name].content = "placeholder"
                        /\ Len(assetFiles[name].text) > 0
                /\ \A img \in images :
                      img.cls = cssClass(id) => img.src = <<"./assets/">> \o name

\* two fallback nodes with image elements, one exported and one not
C15_Witness ==
    /\ pc = "done"
    /\ Len(svgIds) = 2
    /\ svgIds[1] \in cacheMap /\ svgIds[2] \notin cacheMap
    /\ \A i \in 1..2 : \E img \in HtmlImages : img.cls = cssClass(svgIds[i])
    /\ assetFiles[safeId(svgIds[2]) \o <<".svg">>].content = "placeholder"

---------------------------------------------------------------------------
(* The convert handler on documents of two top-level nodes whose ids are any two *)
(* distinct strings of IdPool                                                    *)

IdPool == {<<"1", ":", "2">>, <<"1", ";", "2">>, <<"1", "_", "2">>, <<"1", ":", "3">>}

InitIds ==
    /\ \E id1, id2 \in IdPool, p1, p2 \in RawProfiles :
          /\ id1 # id2
          /\ document =
               [id |-> <<"0", ":", "0">>, type |-> "DOCUMENT",
                children |-> <<[id |-> <<"0", ":", "1">>, type |-> "CANVAS",
                                children |-> <<With(p1, "id", id1),
                                               With(p2, "id", id2)>>]>>]
    /\ pc = "start"
    /\ normalized = NoResult
    /\ classifiedFrames = <<>>
    /\ imageAssets = <<>>
    /\ css = <<>>
    /\ html = NoHtml
    /\ svgIds = <<>>
    /\ assetFiles = <<>>
    /\ previous = <<>>
    /\ cacheMap = {}
    /\ normWalk = NoWalk
    /\ outFiles = {}
    /\ response = <<>>
    /\ svgStore = NoStore
    /\ ui = NoUi

SpecIds == InitIds /\ [][Next]_vars

\* C16 as stated: the stylesheet class name and the asset file name derived from
\* a node are collision-free: two distinct node ids never yield the same class
\* name or the same asset file name.
C16_CollisionFree ==
    LET nodes == ClassifiedNodes
    IN \A i, j \in DOMAIN nodes :
          nodes[i].id # nodes[j].id =>
             /\ cssClass(nodes[i].id) # cssClass(nodes[j].id)
             /\ safeId(nodes[i].id) # safeId(nodes[j].id)

---------------------------------------------------------------------------
(* The convert handler on documents of a frame whose fills, strokes and effects *)
(* include entries of unsupported kinds and hidden entries, followed by a text  *)

RawFillPalette ==
    {RawSolid(Red), With(RawSolid(Teal), "visible", FALSE),
     [type |-> "VIDEO"], [type |-> "VIDEO", visible |-> FALSE]}

RawStrokePalette ==
    {[type |-> "SOLID", color |-> Red, weight |-> Unit],
     [type |-> "IMAGE", imageRef |-> "ref"],
     [type |-> "IMAGE", imageRef |-> "ref", visible |-> FALSE]}

RawEffectPalette ==
    {[type |-> "DROP_SHADOW", radius |-> Unit, color |-> Teal, offset |-> [x |-> 0, y |-> Unit]],
     [type |-> "NOISE", radius |-> Unit]}

InitPaints ==
    /\ \E nf \in 0..MaxItems :
          \E ns \in 0..(MaxItems - nf) :
             \E ne \in 0..(MaxItems - nf - ns) :
                \E fills \in [1..nf -> RawFillPalette],
                   strokes \in [1..ns -> RawStrokePalette],
                   effects \in [1..ne -> RawEffectPalette] :
                   document =
                     [id |-> <<"0", ":", "0">>, type |-> "DOCUMENT",
                      children |->
                        <<[id |-> <<"0", ":", "1">>, type |-> "CANVAS",
                           children |->
                             <<[id |-> IdOf(1), type |-> "FRAME", name |-> "frame",
                                absoluteBoundingBox |-> Box(0, 0, 10 * Unit, 10 * Unit),
                                fills |-> fills, strokes |-> strokes,
                                effects |-> effects],
                               [id |-> IdOf(2), type |-> "TEXT", name |-> "text",
                                absoluteBoundingBox |-> Box(0, 0, 10 * Unit, 2 * Unit),
                                characters |-> <<"a">>,
                                fills |-> <<RawSolid(Teal)>>]>>]>>]
    /\ pc = "start"
    /\ normalized = NoResult
    /\ classifiedFrames = <<>>
    /\ imageAssets = <<>>
    /\ css = <<>>
    /\ html = NoHtml
    /\ svgIds = <<>>
    /\ assetFiles = <<>>
    /\ previous = <<>>
    /\ cacheMap = {}
    /\ normWalk = NoWalk
    /\ outFiles = {}
    /\ response = <<>>
    /\ svgStore = NoStore
    /\ ui = NoUi

SpecPaints == InitPaints /\ [][Next]_vars

SupportedRawFills ==
    {"SOLID", "GRADIENT_LINEAR", "GRADIENT_RADIAL", "GRADIENT_ANGULAR", "GRADIENT_CONIC",
     "IMAGE"}

SupportedRawStrokes ==
    {"SOLID", "GRADIENT_LINEAR", "GRADIENT_RADIAL", "GRADIENT_ANGULAR", "GRADIENT_CONIC",
     "GRADIENT_DIAMOND"}

SupportedRawEffects == {"DROP_SHADOW", "INNER_SHADOW", "LAYER_BLUR", "BACKGROUND_BLUR"}

\* the visible entries of a raw list whose kind is, or is not, in a set
VisibleIn(entries, kinds) ==
    SelectSeq(entries, LAMBDA e : Field(e, "visible", TRUE) /\ e.type \in kinds)

VisibleNotIn(entries, kinds) ==
    SelectSeq(entries, LAMBDA e : Field(e, "visible", TRUE) /\ e.type \notin kinds)

\* the frame of the documents of SpecPaints
TheFrame == document.children[1].children[1]

\* C17 as stated: every visible fill, stroke or effect entry of an unsupported
\* kind is omitted from the node's list and appends one warning, and processing
\* goes on: the other entries of the node and the nodes after it are mapped.
C17_WarningPerUnsupportedEntry ==
    pc # "start" =>
       LET raw == TheFrame
           style == normalized.frames[1].style
       IN /\ Len(normalized.frames) = 2
          /\ Len(style.fills) = Len(VisibleIn(raw.fills, SupportedRawFills))
          /\ Len(style.strokes) = Len(VisibleIn(raw.strokes, SupportedRawStrokes))
          /\ Len(style.effects) = Len(VisibleIn(raw.effects, SupportedRawEffects))
          /\ Len(normalized.warnings) =
                Len(VisibleNotIn(raw.fills, SupportedRawFills))
                + Len(VisibleNotIn(raw.strokes, SupportedRawStrokes))
                + Len(VisibleNotIn(raw.effects, SupportedRawEffects))

---------------------------------------------------------------------------
(* toNormalized on a raw object graph: the children arrays hold references, so  *)
(* a node may occur among its own descendants. document is the heap: the        *)
(* children of every object, the root being object 1. Each call of toNormalized *)
(* is a frame [node, next] of the call stack, next the index of the child the   *)
(* map over children is at.                                                     *)

Heaps ==
    {[root |-> 1, children |-> ch] :
        ch \in [1..MaxNodes -> {<<>>} \cup {<<a>> : a \in 1..MaxNodes}
                               \cup {<<e[1], e[2]>> : e \in {f \in (1..MaxNodes) \X (1..MaxNodes) : f[1] < f[2]}}]}

InitWalk ==
    /\ document \in Heaps
    /\ pc = "start"
    /\ normalized = NoResult
    /\ classifiedFrames = <<>>
    /\ imageAssets = <<>>
    /\ css = <<>>
    /\ html = NoHtml
    /\ svgIds = <<>>
    /\ assetFiles = <<>>
    /\ previous = <<>>
    /\ cacheMap = {}
    /\ normWalk = NoWalk
    /\ outFiles = {}
    /\ response = <<>>
    /\ svgStore = NoStore
    /\ ui = NoUi

\* normalizeFile calls toNormalized on the root
WalkCall ==
    /\ normWalk.status = "idle"
    /\ normWalk' = [status |-> "running",
                stack |-> <<[node |-> document.root, next |-> 1]>>,
                visits |-> [n \in 1..MaxNodes |-> IF n = document.root THEN 1 ELSE 0]]
    /\ UNCHANGED <<document, pc, normalized, classifiedFrames, imageAssets, css, html,
                   svgIds, assetFiles, previous, cacheMap,
                   outFiles, response, svgStore, ui>>

\* one step of the innermost call: it calls toNormalized on its next child, which
\* fails when the stack is full, or it has mapped all children and returns
WalkStep ==
    /\ normWalk.status = "running"
    /\ LET depth == Len(normWalk.stack)
           top == normWalk.stack[depth]
           kids == document.children[top.node]
       IN IF top.next <= Len(kids)
          THEN IF depth >= MaxStack
               THEN normWalk' = [normWalk EXCEPT !.status = "threw", !.stack = <<>>]
               ELSE normWalk' = [normWalk EXCEPT
                               !.stack = Append([@ EXCEPT ![depth].next = @ + 1],
                                                [node |-> kids[top.next], next |-> 1]),
                               !.visits[kids[top.next]] = @ + 1]
          ELSE normWalk' = [normWalk EXCEPT
                          !.stack = SubSeq(@, 1, depth - 1),
                          !.status = IF depth = 1 THEN "returned" ELSE "running"]
    /\ UNCHANGED <<document, pc, normalized, classifiedFrames, imageAssets, css, html,
                   svgIds, assetFiles, previous, cacheMap,
                   outFiles, response, svgStore, ui>>

NextWalk ==
    \/ WalkCall
    \/ WalkStep

SpecWalk == InitWalk /\ [][NextWalk]_vars /\ WF_vars(NextWalk)

\* C18 as stated: normalization terminates on every input, a cyclic raw structure
\* included: the walk returns.
C18_WalkReturns == <>(normWalk.status = "returned")

---------------------------------------------------------------------------
(* Image-fallback nodes in the stylesheet *)

\* the properties the layout part of a block declares
LayoutProps ==
    {"position", "left", "top", "width", "height", "display", "flex-direction",
     "gap", "padding", "align-items", "justify-content"}

HasImageFill(n) ==
    \E k \in DOMAIN n.style.fills :
       n.style.fills[k].kind = "image" /\ n.style.fills[k].imageRef # ""

\* C19: the block of a node classified image-fallback holds layout declarations
\* only: no colour, background, background image, border, shadow, opacity, radius
\* or typography declaration, whatever its style and whatever image-asset map was
\* built from the same classified trees.
C19_SvgLayoutOnly ==
    Styled =>
      \A i \in DOMAIN ClassifiedNodes :
         LET n == ClassifiedNodes[i]
             rules == BlockRules(n.id)
         IN n.renderAs = "svg" =>
              /\ n.id \notin DOMAIN imageAssets
              /\ \A k \in DOMAIN rules : rules[k].prop \in LayoutProps
              /\ rules = layoutRules(n.layout)

\* an image-fallback node with an image fill and a stroke, styled in a run whose
\* export layer produced a bitmap for every id asked for
C19_Witness ==
    /\ Styled
    /\ \E i \in DOMAIN ClassifiedNodes :
          LET n == ClassifiedNodes[i]
          IN /\ n.renderAs = "svg"
             /\ HasImageFill(n)
             /\ Len(n.style.strokes) > 0
             /\ Len(BlockRules(n.id)) > 0
             /\ DOMAIN imageAssets = DOMAIN collectImageFillNodes(classifiedFrames)

---------------------------------------------------------------------------
(* Flow items in the stylesheet *)

\* C20 as stated: the block of every flow-item node holds its width and height
\* declarations and no position, left or top declaration.
C20_FlowItemWidthHeight ==
    Styled =>
      \A i \in DOMAIN ClassifiedNodes :
         LET n == ClassifiedNodes[i]
             rules == BlockRules(n.id)
         IN n.layout.display = "block" =>
              /\ DeclsOf(rules, "width") = <<Decl("width", px(n.layout.width))>>
              /\ DeclsOf(rules, "height") = <<Decl("height", px(n.layout.height))>>
              /\ \A prop \in {"position", "left", "top"} : Len(DeclsOf(rules, prop)) = 0

---------------------------------------------------------------------------
(* Children of image-fallback nodes *)

\* C21 as stated: the children of an image-fallback node are classified on their
\* own and still emitted: a child classified markup below an image-fallback
\* parent appears in the emitted markup.
C21_MarkupChildOfSvgEmitted ==
    Styled =>
      LET classes == HtmlClasses
      IN \A i \in DOMAIN ClassifiedNodes :
            LET n == ClassifiedNodes[i]
            IN n.renderAs = "svg" =>
                 \A k \in DOMAIN n.children :
                    n.children[k].renderAs = "html" =>
                       cssClass(n.children[k].id) \in classes

---------------------------------------------------------------------------
(* exportNodeSvgs and its disk cache: src/app/lib/figmaClient.ts. svgStore holds *)
(* for one file key the cache directory (for every id the version of the Figma   *)
(* file its SVG was downloaded from, 0 when there is no file), the lastModified  *)
(* of __meta.json (0 when there is none), the version the file has at Figma, and *)
(* the export call under way. A lastModified value is the number of a version;   *)
(* 0 stands for an option that is not given.                                     *)

\* the variables of the convert handler, which the export calls leave alone
handlerVars ==
    <<document, pc, normalized, classifiedFrames, imageAssets, css, html, svgIds,
      assetFiles, previous, cacheMap, outFiles, response>>

SvgPool == {IdOf(1), IdOf(2)}

\* the id lists a call is made with
NodeIdLists ==
    {<<a>> : a \in SvgPool} \cup {<<e[1], e[2]>> : e \in {f \in SvgPool \X SvgPool : f[1] # f[2]}}

InitSvgCache ==
    /\ document = MkDocument(0, <<>>, <<>>)
    /\ pc = "start"
    /\ normalized = NoResult
    /\ classifiedFrames = <<>>
    /\ imageAssets = <<>>
    /\ css = <<>>
    /\ html = NoHtml
    /\ svgIds = <<>>
    /\ assetFiles = <<>>
    /\ previous = <<>>
    /\ cacheMap = {}
    /\ normWalk = NoWalk
    /\ outFiles = {}
    /\ response = <<>>
    /\ svgStore = [status |-> "idle",
                   files |-> [id \in SvgPool |-> 0],
                   meta |-> 0,
                   remote |-> 1]
    /\ ui = NoUi

\* the file is edited in Figma between two calls
FileModified ==
    /\ svgStore.status # "running"
    /\ svgStore.remote < MaxVer
    /\ svgStore' = [svgStore EXCEPT !.remote = @ + 1]
    /\ UNCHANGED <<handlerVars, normWalk, ui>>

\* exportNodeSvgs up to the batch loop: the invalidation of the cache directory
\* and the split of nodeIds into cached and missing ids. The caller passes the
\* lastModified the file has at that moment, or none.
ExportBegin ==
    /\ svgStore.status # "running"
    /\ \E nodeIds \in NodeIdLists, useCache \in BOOLEAN,
          fileLastModified \in {0, svgStore.remote}, batchSize \in 1..2 :
          LET stale == /\ useCache
                       /\ fileLastModified # 0
                       /\ svgStore.meta # 0
                       /\ svgStore.meta # fileLastModified
              files == IF stale THEN [id \in SvgPool |-> 0] ELSE svgStore.files
              meta == IF stale THEN 0 ELSE svgStore.meta
              hit(id) == useCache /\ files[id] # 0
              cached == {nodeIds[k] : k \in {j \in DOMAIN nodeIds : hit(nodeIds[j])}}
          IN svgStore' = [status |-> "running",
                          files |-> files,
                          meta |-> meta,
                          remote |-> svgStore.remote,
                          useCache |-> useCache,
                          fileLastModified |-> fileLastModified,
                          batchSize |-> batchSize,
                          fromCache |-> [id \in cached |-> files[id]],
                          result |-> cached,
                          missing |-> SelectSeq(nodeIds, LAMBDA id : ~hit(id)),
                          i |-> 1]
    /\ UNCHANGED <<handlerVars, normWalk, ui>>

\* one round of the batch loop: the images endpoint answers and any of the SVGs
\* of the slice are downloaded and written to the cache directory
ExportBatch ==
    /\ svgStore.status = "running"
    /\ svgStore.i <= Len(svgStore.missing)
    /\ LET last == Min2(svgStore.i + svgStore.batchSize - 1, Len(svgStore.missing))
           slice == {svgStore.missing[k] : k \in svgStore.i..last}
       IN \E got \in SUBSET slice :
             svgStore' = [svgStore EXCEPT
                            !.files = [id \in SvgPool |->
                                          IF id \in got THEN svgStore.remote ELSE @[id]],
                            !.result = @ \cup got,
                            !.i = @ + svgStore.batchSize]
    /\ UNCHANGED <<handlerVars, normWalk, ui>>

\* the images endpoint answers a batch with an error status or an err field:
\* exportNodeSvgs throws
ExportThrows ==
    /\ svgStore.status = "running"
    /\ svgStore.i <= Len(svgStore.missing)
    /\ svgStore' = [svgStore EXCEPT !.status = "threw"]
    /\ UNCHANGED <<handlerVars, normWalk, ui>>

\* after the last batch: __meta.json is written when fileLastModified is given,
\* and result is returned
ExportReturn ==
    /\ svgStore.status = "running"
    /\ svgStore.i > Len(svgStore.missing)
    /\ svgStore' = [svgStore EXCEPT
                      !.status = "returned",
                      !.meta = IF svgStore.fileLastModified # 0
                               THEN svgStore.fileLastModified ELSE @]
    /\ UNCHANGED <<handlerVars, normWalk, ui>>

NextSvgCache ==
    \/ FileModified
    \/ ExportBegin
    \/ ExportBatch
    \/ ExportThrows
    \/ ExportReturn

SpecSvgCache == InitSvgCache /\ [][NextSvgCache]_vars

\* C22 as stated: over any sequence of export calls for one file key, a call made
\* with caching enabled and fileLastModified = L never returns a cached path whose
\* SVG was downloaded while the file had a lastModified different from L.
C22_NoStaleCachedPath ==
    (svgStore.status = "returned" /\ svgStore.useCache /\ svgStore.fileLastModified # 0)
       => \A id \in DOMAIN svgStore.fromCache :
             svgStore.fromCache[id] = svgStore.fileLastModified

---------------------------------------------------------------------------
(* The front-end page: src/unnamed/part_011 (HomePage). ui holds the React state *)
(* (loading, result, error), abortRef as the number of the request whose         *)
(* controller it holds (0 for null), the number of conversions started, and for  *)
(* every request where its fetch is: "fetching" (awaiting fetch), "reading"      *)
(* (awaiting res.json()), "aborted" (its controller was aborted while it was     *)
(* awaiting; the rejection has not run the catch block yet), "settled".          *)
(* A result or error carries the number of the request that wrote it; 0 is the   *)
(* last request of an earlier visit, restored from localStorage; storage is the  *)
(* payload under STORAGE_KEY.                                                    *)

\* the state after the mount effect, which restores result and error from storage
Mounted(result, error) ==
    [status |-> "mounted",
     abortRef |-> 0,
     started |-> 0,
     loading |-> FALSE,
     result |-> result,
     error |-> error,
     storage |-> [result |-> result, error |-> error],
     reqs |-> [r \in 1..MaxReqs |-> "none"]]

InitUi ==
    /\ document = MkDocument(0, <<>>, <<>>)
    /\ pc = "start"
    /\ normalized = NoResult
    /\ classifiedFrames = <<>>
    /\ imageAssets = <<>>
    /\ css = <<>>
    /\ html = NoHtml
    /\ svgIds = <<>>
    /\ assetFiles = <<>>
    /\ previous = <<>>
    /\ cacheMap = {}
    /\ normWalk = NoWalk
    /\ outFiles = {}
    /\ response = <<>>
    /\ svgStore = NoStore
    /\ ui \in {Mounted(<<>>, <<>>),
               Mounted(<<[req |-> 0]>>, <<>>),
               Mounted(<<>>, <<[req |-> 0, message |-> "failed"]>>)}

\* a plausible slip: the earlier controller is not aborted
handleSubmit_noAbort(u, hasKey) ==
    LET id == u.started + 1
    IN [u EXCEPT
          !.abortRef = id,
          !.started = id,
          !.loading = hasKey,
          !.result = <<>>,
          !.error = IF hasKey THEN <<>> ELSE <<[req |-> id, message |-> "no key"]>>,
          !.reqs = [@ EXCEPT ![id] = IF hasKey THEN "fetching" ELSE "settled"]]

\* handleSubmit up to its first await: the controller in abortRef is aborted, a
\* new one is stored, the state is cleared, and without a file key the error is
\* set and no request is made
handleSubmit(u, hasKey) ==
    LET id == u.started + 1
        reqs == IF u.abortRef # 0 /\ u.reqs[u.abortRef] \in {"fetching", "reading"}
                THEN [u.reqs EXCEPT ![u.abortRef] = "aborted"]
                ELSE u.reqs
    IN [u EXCEPT
          !.abortRef = id,
          !.started = id,
          !.loading = hasKey,
          !.result = <<>>,
          !.error = IF hasKey THEN <<>> ELSE <<[req |-> id, message |-> "no key"]>>,
          !.reqs = [reqs EXCEPT ![id] = IF hasKey THEN "fetching" ELSE "settled"]]

Submit ==
    /\ ui.started < MaxReqs
    /\ \E hasKey \in BOOLEAN : ui' = handleSubmit(ui, hasKey)
    /\ UNCHANGED <<handlerVars, normWalk, svgStore>>

\* fetch resolves with a response; handleSubmit goes on to await res.json()
HeadersArrive ==
    /\ \E r \in 1..MaxReqs :
          /\ ui.reqs[r] = "fetching"
          /\ ui' = [ui EXCEPT !.reqs[r] = "reading"]
    /\ UNCHANGED <<handlerVars, normWalk, svgStore>>

\* fetch rejects with a network error: catch sets the error, finally clears loading
FetchFails ==
    /\ \E r \in 1..MaxReqs :
          /\ ui.reqs[r] = "fetching"
          /\ ui' = [ui EXCEPT !.reqs[r] = "settled",
                              !.error = <<[req |-> r, message |-> "failed"]>>,
                              !.loading = FALSE]
    /\ UNCHANGED <<handlerVars, normWalk, svgStore>>

\* res.json() resolves: setResult for an ok response, otherwise the thrown Error
\* is caught and setError called; finally clears loading
BodyArrives ==
    /\ \E r \in 1..MaxReqs, ok \in BOOLEAN :
          /\ ui.reqs[r] = "reading"
          /\ ui' = [ui EXCEPT !.reqs[r] = "settled",
                              !.result = IF ok THEN <<[req |-> r]>> ELSE @,
                              !.error = IF ok THEN @
                                        ELSE <<[req |-> r, message |-> "failed"]>>,
                              !.loading = FALSE]
    /\ UNCHANGED <<handlerVars, normWalk, svgStore>>

\* the await of an aborted request rejects with AbortError: catch returns, finally
\* clears loading
AbortSettles ==
    /\ \E r \in 1..MaxReqs :
          /\ ui.reqs[r] = "aborted"
          /\ ui' = [ui EXCEPT !.reqs[r] = "settled", !.loading = FALSE]
    /\ UNCHANGED <<handlerVars, normWalk, svgStore>>

\* the effect that persists result and error whenever they have changed
Persist ==
    /\ ui.storage # [result |-> ui.result, error |-> ui.error]
    /\ ui' = [ui EXCEPT !.storage = [result |-> ui.result, error |-> ui.error]]
    /\ UNCHANGED <<handlerVars, normWalk, svgStore>>

NextUi ==
    \/ Submit
    \/ Persist
    \/ HeadersArrive
    \/ FetchFails
    \/ BodyArrives
    \/ AbortSettles

SpecUi == InitUi /\ [][NextUi]_vars

\* C23: starting a conversion while an earlier request is in flight cancels the
\* earlier request, and a superseded request never writes the displayed result or
\* error: at every moment the displayed result, and the displayed error, is that
\* of the most recently started request, or empty.
C23_LatestRequestOnly ==
    /\ \A r \in 1..MaxReqs :
          ui.reqs[r] \in {"fetching", "reading"} => r = ui.started
    /\ Len(ui.result) = 1 => ui.result[1].req = ui.started
    /\ Len(ui.error) = 1 => ui.error[1].req = ui.started

\* the second request has delivered its result while the first, cancelled by it,
\* has not yet run its catch block
C23_Witness ==
    /\ ui.started = 2
    /\ ui.reqs[1] = "aborted"
    /\ ui.reqs[2] = "settled"
    /\ Len(ui.result) = 1

---------------------------------------------------------------------------
(* The convert handler on inputs and export failures that end a request early:   *)
(* document roots without a child list, and an export call that throws.          *)
(* FIGMA_TOKEN is set.                                                           *)

\* the status codes pickStatusCode gives the message of a failed images call
FailureStatuses == {401, 404, 429, 500}

InitFail ==
    /\ document \in {[id |-> <<"0", ":", "0">>, type |-> "DOCUMENT"],
                     [id |-> <<"0", ":", "0">>, type |-> "DOCUMENT", children |-> <<>>]}
                    \cup {MkDocument(MaxNodes - 1, par, prof) :
                             par \in [1..(MaxNodes - 1) -> {0}],
                             prof \in [1..(MaxNodes - 1) -> RawProfiles]}
    /\ pc = "start"
    /\ normalized = NoResult
    /\ classifiedFrames = <<>>
    /\ imageAssets = <<>>
    /\ css = <<>>
    /\ html = NoHtml
    /\ svgIds = <<>>
    /\ assetFiles = <<>>
    /\ previous = <<>>
    /\ cacheMap = {}
    /\ normWalk = NoWalk
    /\ outFiles = {}
    /\ response = <<>>
    /\ svgStore = NoStore
    /\ ui = NoUi

\* 10) emitSvgAssets has ids to export and exportNodeSvgs throws: nothing is
\* written to the assets directory, and the catch block of the handler responds
\* ok: false
EmitSvgAssetsThrows ==
    /\ pc = "built"
    /\ svgIds' = collectSvgNodeIds(classifiedFrames)
    /\ Len(svgIds') > 0
    /\ \E status \in FailureStatuses :
          response' = <<[ok |-> FALSE, status |-> status]>>
    /\ pc' = "failed"
    /\ UNCHANGED <<ui, svgStore, normWalk, outFiles, cacheMap, assetFiles, previous,
                   document, normalized, classifiedFrames, imageAssets, css, html>>

NextFail ==
    \/ Next
    \/ EmitSvgAssetsThrows

SpecFail == InitFail /\ [][NextFail]_vars

\* C24 as stated: normalizing a document root that has no child list at all is a
\* fatal error that the handler reports as a conversion failure (ok: false), never
\* an ok result with empty output.
C24_RootWithoutChildrenFails ==
    ("children" \notin DOMAIN document /\ Len(response) = 1) => ~response[1].ok

\* C25 as stated: once index.html has been written, at every point where the
\* handler returns, with ok: true or with an error response, every
\* ./assets/<id>.svg address the markup refers to has a file behind it.
C25_NoBrokenSvgReference ==
    ("index.html" \in outFiles /\ Len(response) = 1) =>
       \A img \in HtmlImages :
          \E name \in DOMAIN assetFiles : img.src = <<"./assets/">> \o name

---------------------------------------------------------------------------
(* Counters of the normalizer *)

\* the raw entries the walk is invoked on: a renderable child of a page, or a
\* child of a kept node
InvokedOn(e, normIds) ==
    IF Len(e.parent) = 0
    THEN Field(e.node, "visible", TRUE) # FALSE /\ e.node.type \notin NonVisualKinds
    ELSE e.parent[1].id \in normIds

\* C26: after normalizeFile returns, nodesTotal is the number of raw nodes the
\* walk was invoked on (every kept node plus every node dropped for its kind, but
\* no descendant of a dropped node), the sum of the four per-kind counters is the
\* number of nodes in the returned trees, and which nodes are kept is settled by
\* kind and position alone. Stated on the state normalizeFile returns into.
C26_StatsCountInvocations ==
    pc = "normalized" =>
      LET re == RawEntries
          normIds == NormIds
          stats == normalized.stats
          kept == Len(NormEntries)
          dropped == {k \in DOMAIN re : /\ re[k].node.type \notin MappedKinds
                                        /\ InvokedOn(re[k], normIds)}
      IN /\ stats.nodesTotal = kept + Cardinality(dropped)
         /\ stats.frames + stats.texts + stats.vectors + stats.images = kept
         /\ \A k \in DOMAIN re :
               re[k].node.id \in normIds <=>
                  (re[k].node.type \in MappedKinds /\ InvokedOn(re[k], normIds))

\* a kept node has a child dropped for its kind whose own child is not visited:
\* the total is larger than the number of kept nodes and smaller than the number
\* of raw nodes
C26_Witness ==
    /\ pc = "normalized"
    /\ LET re == RawEntries
           normIds == NormIds
       IN /\ \E k \in DOMAIN re :
                /\ re[k].node.type \notin MappedKinds \cup NonVisualKinds
                /\ Len(re[k].parent) > 0 /\ re[k].parent[1].id \in normIds
                /\ Len(Field(re[k].node, "children", <<>>)) > 0
          /\ normalized.stats.nodesTotal > Len(NormEntries)
          /\ normalized.stats.nodesTotal < Len(re)

---------------------------------------------------------------------------
(* Order of the output *)

\* the classes of the elements of the markup, in document order
RECURSIVE MarkupOrder(_)
RECURSIVE MarkupOrderAll(_, _)
MarkupOrderAll(els, i) ==
    IF i > Len(els) THEN <<>> ELSE MarkupOrder(els[i]) \o MarkupOrderAll(els, i + 1)

MarkupOrder(el) ==
    <<el.cls>> \o (IF el.tag = "div" THEN MarkupOrderAll(el.children, 1) ELSE <<>>)

IdsOf(entries) == [k \in DOMAIN entries |-> entries[k].node.id]

\* C27: order is preserved end to end: the normalized nodes are the kept raw nodes
\* in raw order, classifyTree keeps that order, and the stylesheet blocks and the
\* markup elements follow the pre-order of the classified trees, so any two
\* emitted nodes appear in the same relative order as in the raw tree. Each link
\* is stated where it is made: the later stages leave the earlier trees alone.
C27_OrderPreserved ==
    /\ pc = "normalized" =>
          LET rawIds == IdsOf(RawEntries)
              normSeq == IdsOf(NormEntries)
              normIds == {normSeq[k] : k \in DOMAIN normSeq}
          IN normSeq = SelectSeq(rawIds, LAMBDA id : id \in normIds)
    /\ pc = "classified" =>
          LET classified == ClassifiedNodes
          IN [k \in DOMAIN classified |-> classified[k].id] = IdsOf(NormEntries)
    /\ Styled =>
          LET classified == ClassifiedNodes
              classSeq == [k \in DOMAIN classified |-> cssClass(classified[k].id)]
              selectors == CssSelectors
              classes == HtmlClasses
          IN /\ [k \in 1..(Len(css) - 1) |-> css[k + 1].selector]
                   = SelectSeq(classSeq, LAMBDA c : c \in selectors)
             /\ MarkupOrderAll(html.body, 1)
                   = SelectSeq(classSeq, LAMBDA c : c \in classes)

\* a markup node with two children, both with a block and an element, below a
\* raw parent that has them in the same order
C27_Witness ==
    /\ Styled
    /\ \E i \in DOMAIN ClassifiedNodes :
          LET n == ClassifiedNodes[i]
          IN /\ n.renderAs = "html"
             /\ Len(n.children) = 2
             /\ n.children[1].id # n.children[2].id
             /\ \A k \in 1..2 :
                   /\ cssClass(n.children[k].id) \in CssSelectors
                   /\ cssClass(n.children[k].id) \in HtmlClasses

---------------------------------------------------------------------------
(* Direct calls of the stroke emitter: pushStroke on every list of up to two     *)
(* strokes of the shapes mapStrokes produces, whether or not the classifier      *)
(* would let the node reach the emitter.                                         *)

AllStrokes ==
    {[kind |-> "solid", alignment |-> al, width |-> w * Unit + 1, color |-> Teal] :
        al \in {"CENTER", "INSIDE", "OUTSIDE"}, w \in 1..2}
    \cup {[kind |-> "solid", alignment |-> al, width |-> Unit, color |-> Red,
           dashPattern |-> dp] :
             al \in {"CENTER", "INSIDE", "OUTSIDE"}, dp \in {<<>>, <<2, 1>>}}
    \cup {[kind |-> "gradient", alignment |-> al, width |-> Unit,
           gradient |-> [stops |-> <<>>, angle |-> 0]] :
             al \in {"CENTER", "INSIDE"}}

InitStroke ==
    /\ document = [type |-> "DOCUMENT"]
    /\ pc = "stroke"
    /\ \E n \in 0..2 : \E strokes \in [1..n -> AllStrokes] :
          normalized = [frames |-> <<MkNode("frame", <<>>, strokes, <<>>, FALSE, "")>>,
                        warnings |-> <<>>, stats |-> ZeroStats]
    /\ classifiedFrames = <<>>
    /\ imageAssets = <<>>
    /\ css = <<>>
    /\ html = NoHtml
    /\ svgIds = <<>>
    /\ assetFiles = <<>>
    /\ previous = <<>>
    /\ cacheMap = {}
    /\ normWalk = NoWalk
    /\ outFiles = {}
    /\ response = <<>>
    /\ svgStore = NoStore
    /\ ui = NoUi

\* pushStroke(rules, strokes) on an empty rules array
PushStroke ==
    /\ pc = "stroke"
    /\ css' = <<[selector |-> cssClass(normalized.frames[1].id),
                 rules |-> pushStroke(normalized.frames[1].style.strokes)]>>
    /\ pc' = "pushed"
    /\ UNCHANGED <<document, normalized, classifiedFrames, imageAssets, html, svgIds,
                   assetFiles, previous, cacheMap, normWalk, outFiles, response,
                   svgStore, ui>>

SpecStroke == InitStroke /\ [][PushStroke]_vars

Dashed(s) == "dashPattern" \in DOMAIN s /\ Len(s.dashPattern) > 0

---------------------------------------------------------------------------
(* The classifier's guarantee at emission *)

\* C29: a node left as text or markup has at most one stroke, and that one solid,
\* CENTER-aligned and undashed, at most one shadow effect and no blur, so its
\* block holds at most one border declaration and at most one box-shadow
\* declaration, the latter with a single shadow.
C29_GuaranteeAtEmission ==
    Styled =>
      \A i \in DOMAIN ClassifiedNodes :
         LET n == ClassifiedNodes[i]
             strokes == n.style.strokes
             effects == n.style.effects
             rules == BlockRules(n.id)
             border == DeclsOf(rules, "border")
             shadow == DeclsOf(rules, "box-shadow")
         IN n.renderAs \in {"html", "html-text"} =>
              /\ Len(strokes) <= 1
              /\ Len(strokes) = 1 =>
                    /\ strokes[1].kind = "solid"
                    /\ strokes[1].alignment = "CENTER"
                    /\ ~Dashed(strokes[1])
              /\ Cardinality({k \in DOMAIN effects :
                                 effects[k].type \in {"DROP_SHADOW", "INNER_SHADOW"}}) <= 1
              /\ \A k \in DOMAIN effects :
                    effects[k].type \notin {"LAYER_BLUR", "BACKGROUND_BLUR"}
              /\ Len(border) <= 1
              /\ Len(shadow) <= 1
              /\ Len(shadow) = 1 => Len(shadow[1].val) = 1

\* a markup node with one stroke and one shadow: a border and a box-shadow
C29_Witness ==
    /\ Styled
    /\ \E i \in DOMAIN ClassifiedNodes :
          LET n == ClassifiedNodes[i]
              rules == BlockRules(n.id)
          IN /\ n.renderAs = "html"
             /\ Len(n.style.strokes) = 1
             /\ Len(n.style.effects) = 1
             /\ Len(DeclsOf(rules, "border")) = 1
             /\ Len(DeclsOf(rules, "box-shadow")) = 1

---------------------------------------------------------------------------
(* Classified trees against normalized trees *)

\* the classified node c is the normalized node n with a render strategy added,
\* at every position of the tree
RECURSIVE SameShape(_, _)
SameShape(c, n) ==
    /\ DOMAIN c = DOMAIN n \cup {"renderAs"}
    /\ \A k \in DOMAIN n \ {"children"} : c[k] = n[k]
    /\ c.renderAs = classifyNode(n)
    /\ Len(c.children) = Len(n.children)
    /\ \A j \in DOMAIN n.children : SameShape(c.children[j], n.children[j])

\* C30: classifyTree leaves the normalized tree unchanged and returns a tree of
\* the same shape: at every position the classified node has the same id, kind,
\* layout, style and the same number and order of children, and differs only by
\* the added render strategy, which is classifyNode of that node and which
\* neither emitter changes. Stated on the state classifyTree returns into and on
\* the state after both emitters and the asset stage have run.
C30_ClassifiedSameShape ==
    pc \in {"classified", "done"} =>
       /\ pc = "classified" => normalized = normalizeFile(document)
       /\ Len(classifiedFrames) = Len(normalized.frames)
       /\ \A i \in DOMAIN classifiedFrames :
             SameShape(classifiedFrames[i], normalized.frames[i])

\* after both emitters have run, a classified image-fallback node still has its
\* markup child
C30_Witness ==
    /\ pc = "done"
    /\ \E i \in DOMAIN ClassifiedNodes :
          LET n == ClassifiedNodes[i]
          IN /\ n.renderAs = "svg"
             /\ Len(n.children) > 0
             /\ n.children[1].renderAs = "html"

====
